---- MODULE Spec2Model ----
(***************************************************************************)
(* Model of the LLM provider fallback chain of MyBot                       *)
(* (src/src/ai/genkit-with-fallback.ts, module "model-fallback",           *)
(* lines 33-452; the older revisions at lines 453-847 of the same file and *)
(* in src/unnamed/part_002 have the same control flow).                    *)
(*                                                                         *)
(* Strings are modelled as sequences of tokens, so that template literals  *)
(* and Array.join are real concatenations.  The token NL is "\n".          *)
(***************************************************************************)
EXTENDS Integers, Sequences, FiniteSets, TLC

\* Longest configuration list the model explores.
MaxConfigs == 3

NL == "\n"

KnownProviders == {"gemini", "openai", "openrouter", "grok"}

\* interface ModelConfig { provider; model; apiKey }
ModelConfig(p, m, k) == [provider |-> p, model |-> m, apiKey |-> k]

\* Entries the configuration list is drawn from: the shapes of the static
\* list (apiKey: process.env.X || '' is either a key or the empty string),
\* plus one entry whose provider tag is outside the union type, which
\* reaches the default branch of callModel.
ConfigPool ==
    { ModelConfig("gemini", "gemini-2.5-flash", "GEMINI_API_KEY"),
      ModelConfig("gemini", "gemini-1.5-pro", ""),
      ModelConfig("openrouter", "deepseek/deepseek-r1:free", "OPENROUTER_API_KEY"),
      ModelConfig("openai", "gpt-4-turbo", "OPENAI_API_KEY"),
      ModelConfig("grok", "grok-2", ""),
      ModelConfig("grok", "grok-2", "GROK_API_KEY"),
      ModelConfig("mistral", "mistral-large", "MISTRAL_API_KEY") }

ConfigLists == UNION { [1..n -> ConfigPool] : n \in 0..MaxConfigs }

(***************************************************************************)
(* Values a promise can reject with / a catch clause can receive.          *)
(***************************************************************************)
\* new Error(message)
ErrorValue(msg) == [isError |-> TRUE, message |-> msg, num |-> 0]
\* a thrown number (a value that is not an instance of Error)
NumberValue(n) == [isError |-> FALSE, message |-> <<>>, num |-> n]

\* String(v) for a thrown number: its decimal digits.
String(v) == <<ToString(v.num)>>

NoThrown == ErrorValue(<<>>)

(***************************************************************************)
(* What the network can answer to one fetch.                               *)
(***************************************************************************)
\* Shapes of the body of an HTTP response, as far as the adapters look into
\* it.  The first is not JSON; the others are the JSON values
\*   "null"       null
\*   "noList"     {}                      (no candidates / choices)
\*   "emptyList"  {"candidates": []}      ({"choices": []})
\*   "noContent"  {"candidates": [{}]}    ({"choices": [{}]})
\*   "noParts"    {"candidates": [{"content": {}}]}
\*                                        ({"choices": [{"message": {}}]})
\*   "emptyParts" {"candidates": [{"content": {"parts": []}}]}
\*   "noText"     {"candidates": [{"content": {"parts": [{}]}}]}
\*   "text"       the text field is there and holds `text`
\* ("emptyParts" and "noText" have no counterpart of their own in a chat
\* completion, whose message holds the text directly: there they read as
\* a message without content.)
BodyShapes ==
    { "malformed", "null", "noList", "emptyList", "noContent", "noParts",
      "emptyParts", "noText", "text" }

\* An HTTP response: status line, the shape of its body and the text held
\* by the field the adapter reads (candidates[0].content.parts[0].text, or
\* choices[0].message.content).
HttpResponse(status, statusText, body, text) ==
    [kind |-> "http", status |-> status, statusText |-> statusText,
     body |-> body, text |-> text, reason |-> NoThrown]
\* fetch() itself rejects with the value `reason`.
FetchRejects(reason) ==
    [kind |-> "reject", status |-> 0, statusText |-> "",
     body |-> "malformed", text |-> <<>>, reason |-> reason]

NoResponse == FetchRejects(NoThrown)

Responses ==
    { HttpResponse(200, "OK", "text", <<"hello">>),
      HttpResponse(429, "Too Many Requests", "malformed", <<>>),
      HttpResponse(200, "OK", "text", <<>>),
      FetchRejects(ErrorValue(<<"fetch failed">>)),
      FetchRejects(NumberValue(503)) }

\* response.ok
ResponseOk(r) == r.status >= 200 /\ r.status <= 299

\* Outcome of an async function: it returns a text or throws a value.
Returns(text) == [ok |-> TRUE, text |-> text, thrown |-> NoThrown]
Throws(v) == [ok |-> FALSE, text |-> <<>>, thrown |-> v]

\* The TypeError of reading property `prop` of null or undefined.
TypeError(of, prop) ==
    ErrorValue(<<"Cannot read properties of ", of, " (reading '", prop, "')">>)

\* The SyntaxError response.json() rejects with on a body that is not JSON.
SyntaxError == ErrorValue(<<"Unexpected token < in JSON at position 0">>)

\* data.candidates && data.candidates[0]?.content?.parts[0]?.text
\* The value of the expression (the empty text for every falsy value), or
\* what evaluating it throws: `data.candidates` on null, and `parts[0]`,
\* which has no `?.` before the index, on a content without parts.
GeminiText(r) ==
    CASE r.body = "null" -> Throws(TypeError("null", "candidates"))
      [] r.body = "noParts" -> Throws(TypeError("undefined", "0"))
      [] r.body = "text" -> Returns(r.text)
      [] OTHER -> Returns(<<>>)

\* data.choices && data.choices[0]?.message?.content
ChoiceText(r) ==
    CASE r.body = "null" -> Throws(TypeError("null", "choices"))
      [] r.body = "text" -> Returns(r.text)
      [] OTHER -> Returns(<<>>)

\* `${name} API error: ${response.status} ${response.statusText}`
HttpError(name, r) ==
    ErrorValue(<<name, " API error: ", ToString(r.status), " ", r.statusText>>)

\* `Invalid response from ${name} API`
InvalidResponse(name) == ErrorValue(<<"Invalid response from ", name, " API">>)

\* AdapterOutcome with a test for the presence of the text field in place
\* of the truthiness of the text: an empty text is returned.
AdapterOutcomeAcceptsEmpty(name, r, read) ==
    IF r.kind = "reject" THEN Throws(r.reason)
    ELSE IF ~ResponseOk(r) THEN Throws(HttpError(name, r))
    ELSE IF r.body = "malformed" THEN Throws(SyntaxError)
    ELSE IF ~read.ok THEN read
    ELSE IF r.body = "text" THEN Returns(read.text)
    ELSE Throws(InvalidResponse(name))

\* The part the four adapters share after `await fetch(...)`, with the
\* provider's name in the messages; read is what reading the text out of
\* the parsed body gives.  A text that is the empty string is falsy in the
\* `if`, so it is an invalid response.
AdapterOutcome(name, r, read) ==
    IF r.kind = "reject" THEN Throws(r.reason)
    ELSE IF ~ResponseOk(r) THEN Throws(HttpError(name, r))
    ELSE IF r.body = "malformed" THEN Throws(SyntaxError)
    ELSE IF ~read.ok THEN read
    ELSE IF read.text # <<>> THEN Returns(read.text)
    ELSE Throws(InvalidResponse(name))

callGemini(r) == AdapterOutcome("Gemini", r, GeminiText(r))
callOpenAI(r) == AdapterOutcome("OpenAI", r, ChoiceText(r))
callOpenRouter(r) == AdapterOutcome("OpenRouter", r, ChoiceText(r))
callGrok(r) == AdapterOutcome("Grok", r, ChoiceText(r))

\* callModel: the switch on config.provider; r is what the network answers
\* to the adapter's fetch (unused in the default branch, which calls nothing).
callModel(config, r) ==
    CASE config.provider = "gemini" -> callGemini(r)
      [] config.provider = "openai" -> callOpenAI(r)
      [] config.provider = "openrouter" -> callOpenRouter(r)
      [] config.provider = "grok" -> callGrok(r)
      [] OTHER -> Throws(ErrorValue(<<"Unknown provider: ", config.provider>>))

\* const errorMessage = error instanceof Error ? error.message : String(error)
ErrorMessage(e) == IF e.isError THEN e.message ELSE String(e)

\* { config, error }
AttemptError(config, error) == [config |-> config, error |-> error]

\* `${config.provider}/${config.model}: ${error}`
ErrorLine(e) == <<e.config.provider, "/", e.config.model, ": ">> \o e.error

\* lines.join('\n')
RECURSIVE Join(_)
Join(lines) ==
    IF lines = <<>> THEN <<>>
    ELSE IF Len(lines) = 1 THEN lines[1]
    ELSE lines[1] \o <<NL>> \o Join(Tail(lines))

\* ErrorSummary with the skipped entries filtered out of the report.
ErrorSummaryConfiguredOnly(errs) ==
    LET kept == SelectSeq(errs, LAMBDA e : e.config.apiKey # "")
    IN  Join([i \in 1..Len(kept) |-> ErrorLine(kept[i])])

\* errors.map(({config, error}) => ...).join('\n')
ErrorSummary(errs) == Join([i \in 1..Len(errs) |-> ErrorLine(errs[i])])

ExhaustedHeader ==
    <<"All AI models failed. Please check your API keys, quotas, or network:">>

\* The message of the Error thrown after the loop.
ExhaustedMessage(errs) == ExhaustedHeader \o <<NL>> \o ErrorSummary(errs)

\* interface FallbackResponse
FallbackResponse(content, config) ==
    [content |-> content, provider |-> config.provider,
     model |-> config.model, success |-> TRUE]

NoResult == [content |-> <<>>, provider |-> "", model |-> "", success |-> FALSE]

(***************************************************************************)
(* State.                                                                  *)
(***************************************************************************)
VARIABLES
    modelConfigs,   \* the static configuration list
    pc,             \* position of the callModelWithFallback invocation
    idx,            \* 1-based position of the for..of loop in modelConfigs
    errors,         \* the per-call list `errors`
    fetches,        \* the fetches issued during the invocation, in order
    result,         \* the FallbackResponse the invocation resolved with
    thrown,         \* the message of the Error the invocation rejected with
    inv,            \* the local state of each of several concurrent invocations
    behaviour,      \* what a deterministic provider answers for each list entry
    outcomes,       \* the attributions of the invocations settled so far
    probe,          \* the locals of the checkModelAvailability invocation
    listed,         \* what getAvailableModels returned last
    attempt,        \* one callModel invocation, from its arguments to its outcome
    flow,           \* one invocation of an AI flow (primary prompt, then fallback)
    act,            \* one invocation of a server action of actions.ts
    clock,          \* the wall clock and the numbers getNextNumber has returned
    link,           \* a document carried through the URL of a reply button
    hook            \* one run of handleNewDocumentRequest

vars == <<modelConfigs, pc, idx, errors, fetches, result, thrown>>

\* The state of the other operations and of the other invocations, which
\* callModelWithFallback does not touch.
concVars == <<inv, behaviour, outcomes>>
opsVars == <<probe, listed>>
attemptVars == <<attempt>>
appVars == <<flow, act, clock, link, hook>>
aux == <<concVars, opsVars, attemptVars, appVars>>
\* Everything of the fallback module.
fallbackVars == <<vars, concVars, opsVars, attemptVars>>
allVars == <<vars, aux>>

\* The locals of one callModelWithFallback invocation.
Local(p, i, e, f, r, t) ==
    [pc |-> p, idx |-> i, errors |-> e, fetches |-> f, result |-> r, thrown |-> t]

LocalIdle == Local("idle", 1, <<>>, <<>>, NoResult, <<>>)

\* The concurrent callers.
Procs == {"request-a", "request-b"}

\* The locals of a checkModelAvailability invocation: its position, its
\* loop index, the `results` array and the fetches it has issued.
Probe(p, i, res, f) == [pc |-> p, idx |-> i, results |-> res, fetches |-> f]

ProbeIdle == Probe("idle", 1, <<>>, <<>>)

\* getAvailableModels has not been called / has returned `value`.
NotListed == [called |-> FALSE, value |-> <<>>]
Listed(value) == [called |-> TRUE, value |-> value]

\* An optional argument: a value, or left out (undefined).  Token counts
\* are integers, temperatures are decimal numerals.
Given(v) == [given |-> TRUE, val |-> v]
NoNumber == [given |-> FALSE, val |-> 0]
NoDecimal == [given |-> FALSE, val |-> ""]

\* One attempt of the loop followed from the arguments of
\* callModelWithFallback to the adapter's outcome: the arguments, the
\* adapter callModel chose, the HTTP requests issued, the response.
\* Here no attempt is being followed.
AttemptIdle ==
    [pc |-> "idle", config |-> ModelConfig("", "", ""), prompt |-> <<>>,
     maxTokens |-> NoNumber, temperature |-> NoDecimal, adapter |-> "",
     posts |-> <<>>, response |-> NoResponse, outcome |-> Throws(NoThrown)]

\* What a parse prompt extracts (ParseServiceDetailsOutput).  The three
\* text fields are sequences of characters.  A field the model left out
\* reads like the empty string, a missing item list like the empty list:
\* the code tests them by truthiness only.
Data(customerName, vehicleNumber, carModel, items) ==
    [customerName |-> customerName, vehicleNumber |-> vehicleNumber,
     carModel |-> carModel, items |-> items]

NoData == Data(<<>>, <<>>, <<>>, <<>>)

\* The value a flow resolves with: the output of the modification prompt
\* (modifiedInvoiceDetails, success, message) or of a parse prompt (data),
\* or null.
Output(isNull, details, success, message, data) ==
    [isNull |-> isNull, modifiedInvoiceDetails |-> details,
     success |-> success, message |-> message, data |-> data]

\* { modifiedInvoiceDetails, success, message }
ModOutput(details, success, message) ==
    Output(FALSE, details, success, message, NoData)

\* The output of a parse flow.
ParseOutput(data) == Output(FALSE, "", FALSE, <<>>, data)

NullOutput == Output(TRUE, "", FALSE, <<>>, NoData)

\* How an awaited call ended: with a value or with a thrown value.
Resolved(value) == [ok |-> TRUE, value |-> value, thrown |-> NoThrown]
Rejected(e) == [ok |-> FALSE, value |-> NullOutput, thrown |-> e]

NotSettled == Rejected(NoThrown)

\* A text a fallback provider completed the prompt with, as far as the
\* flows look into it: `shape` says whether /\{[\s\S]*\}/ finds nothing
\* ("prose"), finds a piece that JSON.parse rejects ("braces") or finds a
\* JSON object ("object"); the rest are the fields of that object, with
\* "absent" for a `success` that is undefined and the empty string or
\* text for a field that is missing.
Content(shape, details, success, message, data) ==
    [shape |-> shape, modifiedInvoiceDetails |-> details,
     success |-> success, message |-> message, data |-> data]

NoContent == Content("prose", "", "absent", <<>>, NoData)

\* How `await callModelWithFallback(prompt)` ended: with a FallbackResponse
\* whose content is `content`, or with the exhaustion error.
Completed(content) == [ok |-> TRUE, content |-> content, thrown |-> NoThrown]
Failed(e) == [ok |-> FALSE, content |-> NoContent, thrown |-> e]

NotCalled == Failed(NoThrown)

\* No flow is running.
FlowIdle ==
    [pc |-> "idle", kind |-> "", documentDetails |-> "",
     primaryCalls |-> 0, fallbackCalls |-> 0,
     primary |-> NotSettled, error |-> NoThrown, fallback |-> NotCalled,
     result |-> NotSettled]

\* process.env.X: not set, or set to a string of characters.
EnvUnset == [set |-> FALSE, value |-> <<>>]
EnvSet(value) == [set |-> TRUE, value |-> value]

\* A string or null.
NullText == [isNull |-> TRUE, text |-> <<>>]
Text(text) == [isNull |-> FALSE, text |-> text]

\* The `data` of an action's result: null, the parsed fields with the
\* document number (a text: "2412312358", "Q2412312358"), or the document
\* JSON.parse made of the modified details.
NullDoc == [isNull |-> TRUE, fields |-> NoData, number |-> <<>>, details |-> ""]
ParsedDoc(fields, number) ==
    [isNull |-> FALSE, fields |-> fields, number |-> number, details |-> ""]
ModifiedDoc(details) ==
    [isNull |-> FALSE, fields |-> NoData, number |-> <<>>, details |-> details]

\* How a server action ended: it returned { success, data, error } (the
\* parse actions) or { success, data, message } (modifyInvoiceAction), or
\* the value it threw escaped.
ActionResult(success, data, error, message) ==
    [threw |-> FALSE, thrown |-> NoThrown, success |-> success, data |-> data,
     error |-> error, message |-> message]
ActionThrew(e) ==
    [threw |-> TRUE, thrown |-> e, success |-> FALSE, data |-> NullDoc,
     error |-> NullText, message |-> NullText]

\* No server action is running.  `gemini` and `google` are GEMINI_API_KEY
\* and GOOGLE_API_KEY.
ActIdle ==
    [pc |-> "idle", name |-> "", gemini |-> EnvUnset, google |-> EnvUnset,
     ret |-> ActionThrew(NoThrown)]

\* The clock at the start, no number handed out yet.  `ticks` counts the
\* clock's steps, `format` is the format of the numbers.
ClockIdle == [ticks |-> 0, format |-> "YYMMDDHHMM", issued |-> <<>>]

\* No reply has been generated.  `jsonData` is JSON.stringify(d) as UTF-8
\* bytes, `search` the query of the button's URL, `recovered` what
\* handleModificationRequest gets out of it.
LinkIdle ==
    [pc |-> "idle", encoding |-> "base64", jsonData |-> <<>>, search |-> <<>>,
     recovered |-> Throws(NoThrown)]

\* No message is being handled.  `placeholder` says whether the 'Parsing
\* your text ...' message has been sent, `messages` counts the other
\* messages sent, `edits` lists the calls of editMessageText on the
\* placeholder, `result` is what the parse action returned or threw.
HookIdle ==
    [pc |-> "idle", revision |-> "", docType |-> "", placeholder |-> FALSE,
     messages |-> 0, edits |-> <<>>, threw |-> FALSE,
     result |-> ActionThrew(NoThrown)]

\* No flow, action or handler is running.
AppIdle ==
    /\ flow = FlowIdle
    /\ act = ActIdle
    /\ clock = ClockIdle
    /\ link = LinkIdle
    /\ hook = HookIdle

\* Nothing else is running.
AuxIdle ==
    /\ inv = [p \in Procs |-> LocalIdle]
    /\ behaviour = <<>>
    /\ outcomes = {}
    /\ probe = ProbeIdle
    /\ listed = NotListed
    /\ attempt = AttemptIdle
    /\ AppIdle

\* One record per fetch: which list entry it was issued for, with what
\* configuration, and what came back once it settled.
Fetch(i, config) ==
    [idx |-> i, config |-> config, settled |-> FALSE, response |-> NoResponse]

Init ==
    /\ modelConfigs \in ConfigLists
    /\ pc = "idle"
    /\ idx = 1
    /\ errors = <<>>
    /\ fetches = <<>>
    /\ result = NoResult
    /\ thrown = <<>>
    /\ AuxIdle

\* A caller invokes callModelWithFallback (a new invocation may start once
\* the previous one has settled): `const errors = []`, loop at the first entry.
Invoke ==
    /\ pc \in {"idle", "returned", "thrown"}
    /\ pc' = "loop"
    /\ idx' = 1
    /\ errors' = <<>>
    /\ fetches' = <<>>
    /\ result' = NoResult
    /\ thrown' = <<>>
    /\ UNCHANGED modelConfigs
    /\ UNCHANGED aux

\* SkipUnconfigured without the errors.push.
SkipWithoutRecord ==
    /\ pc = "loop"
    /\ idx <= Len(modelConfigs)
    /\ modelConfigs[idx].apiKey = ""
    /\ idx' = idx + 1
    /\ UNCHANGED <<modelConfigs, pc, errors, fetches, result, thrown>>
    /\ UNCHANGED aux

\* SkipUnconfigured that first sends the request with the empty credential
\* and records the skip when it is refused.
SkipUnconfiguredProbes ==
    /\ pc = "loop"
    /\ idx <= Len(modelConfigs)
    /\ modelConfigs[idx].apiKey = ""
    /\ fetches' = Append(fetches,
                         [Fetch(idx, modelConfigs[idx]) EXCEPT
                            !.settled = TRUE,
                            !.response = FetchRejects(ErrorValue(<<"fetch failed">>))])
    /\ errors' = Append(errors,
                        AttemptError(modelConfigs[idx], <<"API key not configured">>))
    /\ idx' = idx + 1
    /\ UNCHANGED <<modelConfigs, pc, result, thrown>>
    /\ UNCHANGED aux

\* if (!config.apiKey) { errors.push(...); continue; }
SkipUnconfigured ==
    /\ pc = "loop"
    /\ idx <= Len(modelConfigs)
    /\ modelConfigs[idx].apiKey = ""
    /\ errors' = Append(errors,
                        AttemptError(modelConfigs[idx], <<"API key not configured">>))
    /\ idx' = idx + 1
    /\ UNCHANGED <<modelConfigs, pc, fetches, result, thrown>>
    /\ UNCHANGED aux

\* Dispatch without the credential check in front of it.
DispatchIgnoresKey ==
    /\ pc = "loop"
    /\ idx <= Len(modelConfigs)
    /\ modelConfigs[idx].provider \in KnownProviders
    /\ fetches' = Append(fetches, Fetch(idx, modelConfigs[idx]))
    /\ pc' = "awaiting"
    /\ UNCHANGED <<modelConfigs, idx, errors, result, thrown>>
    /\ UNCHANGED aux

\* Dispatch with the await missing: the fetch is issued and the loop goes
\* straight on to the next entry.
DispatchWithoutAwait ==
    /\ pc = "loop"
    /\ idx <= Len(modelConfigs)
    /\ modelConfigs[idx].apiKey # ""
    /\ modelConfigs[idx].provider \in KnownProviders
    /\ fetches' = Append(fetches, Fetch(idx, modelConfigs[idx]))
    /\ idx' = idx + 1
    /\ UNCHANGED <<modelConfigs, pc, errors, result, thrown>>
    /\ UNCHANGED aux

\* await callModel(config, ...) for a known provider: the adapter issues its
\* fetch and the invocation is suspended until the fetch settles.
Dispatch ==
    /\ pc = "loop"
    /\ idx <= Len(modelConfigs)
    /\ modelConfigs[idx].apiKey # ""
    /\ modelConfigs[idx].provider \in KnownProviders
    /\ fetches' = Append(fetches, Fetch(idx, modelConfigs[idx]))
    /\ pc' = "awaiting"
    /\ UNCHANGED <<modelConfigs, idx, errors, result, thrown>>
    /\ UNCHANGED aux

\* DispatchUnknown with callModel outside the try block: its error reaches
\* the caller.
DispatchUnknownPropagates ==
    /\ pc = "loop"
    /\ idx <= Len(modelConfigs)
    /\ modelConfigs[idx].apiKey # ""
    /\ modelConfigs[idx].provider \notin KnownProviders
    /\ thrown' = ErrorMessage(callModel(modelConfigs[idx], NoResponse).thrown)
    /\ pc' = "thrown"
    /\ UNCHANGED <<modelConfigs, idx, errors, fetches, result>>
    /\ UNCHANGED aux

\* await callModel(config, ...) for a provider tag outside the switch:
\* callModel throws without calling an adapter, and the catch block records it.
DispatchUnknown ==
    /\ pc = "loop"
    /\ idx <= Len(modelConfigs)
    /\ modelConfigs[idx].apiKey # ""
    /\ modelConfigs[idx].provider \notin KnownProviders
    /\ LET out == callModel(modelConfigs[idx], NoResponse) IN
         errors' = Append(errors,
                          AttemptError(modelConfigs[idx], ErrorMessage(out.thrown)))
    /\ idx' = idx + 1
    /\ UNCHANGED <<modelConfigs, pc, fetches, result, thrown>>
    /\ UNCHANGED aux

Settle(r) ==
    [fetches EXCEPT ![Len(fetches)] =
        [@ EXCEPT !.settled = TRUE, !.response = r]]

\* AttemptSucceeds that remembers the response and goes on with the loop
\* instead of returning at once.
AttemptSucceedsKeepsGoing ==
    /\ pc = "awaiting"
    /\ \E r \in Responses :
         LET out == callModel(modelConfigs[idx], r) IN
           /\ out.ok
           /\ fetches' = Settle(r)
           /\ result' = FallbackResponse(out.text, modelConfigs[idx])
    /\ idx' = idx + 1
    /\ pc' = "loop"
    /\ UNCHANGED <<modelConfigs, errors, thrown>>
    /\ UNCHANGED aux

\* AttemptSucceeds that attributes the response to the head of the list.
AttemptSucceedsAttributesFirst ==
    /\ pc = "awaiting"
    /\ \E r \in Responses :
         LET out == callModel(modelConfigs[idx], r) IN
           /\ out.ok
           /\ fetches' = Settle(r)
           /\ result' = FallbackResponse(out.text, modelConfigs[1])
    /\ pc' = "returned"
    /\ UNCHANGED <<modelConfigs, idx, errors, thrown>>
    /\ UNCHANGED aux

\* The fetch settles and callModel resolves: return { content, provider,
\* model, success: true }.
AttemptSucceeds ==
    /\ pc = "awaiting"
    /\ \E r \in Responses :
         LET out == callModel(modelConfigs[idx], r) IN
           /\ out.ok
           /\ fetches' = Settle(r)
           /\ result' = FallbackResponse(out.text, modelConfigs[idx])
    /\ pc' = "returned"
    /\ UNCHANGED <<modelConfigs, idx, errors, thrown>>
    /\ UNCHANGED aux

\* AttemptFails whose catch block handles Error instances only and rethrows
\* anything else.
AttemptFailsRethrowsNonError ==
    /\ pc = "awaiting"
    /\ \E r \in Responses :
         LET out == callModel(modelConfigs[idx], r) IN
           /\ ~out.ok
           /\ fetches' = Settle(r)
           /\ IF out.thrown.isError
              THEN /\ errors' = Append(errors,
                                       AttemptError(modelConfigs[idx], out.thrown.message))
                   /\ idx' = idx + 1
                   /\ pc' = "loop"
                   /\ thrown' = thrown
              ELSE /\ thrown' = String(out.thrown)
                   /\ pc' = "thrown"
                   /\ UNCHANGED <<errors, idx>>
    /\ UNCHANGED <<modelConfigs, result>>
    /\ UNCHANGED aux

\* AttemptFails with errors.unshift in place of errors.push.
AttemptFailsPrepends ==
    /\ pc = "awaiting"
    /\ \E r \in Responses :
         LET out == callModel(modelConfigs[idx], r) IN
           /\ ~out.ok
           /\ fetches' = Settle(r)
           /\ errors' = <<AttemptError(modelConfigs[idx], ErrorMessage(out.thrown))>>
                         \o errors
    /\ idx' = idx + 1
    /\ pc' = "loop"
    /\ UNCHANGED <<modelConfigs, result, thrown>>
    /\ UNCHANGED aux

\* AttemptFails that tries the same entry a second time before moving on.
AttemptFailsRetriesOnce ==
    /\ pc = "awaiting"
    /\ \E r \in Responses :
         LET out == callModel(modelConfigs[idx], r) IN
           /\ ~out.ok
           /\ fetches' = Settle(r)
           /\ errors' = Append(errors,
                               AttemptError(modelConfigs[idx], ErrorMessage(out.thrown)))
    /\ idx' = IF Len(fetches) >= 2 /\ fetches[Len(fetches) - 1].idx = idx
              THEN idx + 1 ELSE idx
    /\ pc' = "loop"
    /\ UNCHANGED <<modelConfigs, result, thrown>>
    /\ UNCHANGED aux

\* AttemptFails that also gives up on a fetch that has not settled, as an
\* orchestrator with a timeout would, and goes on to the next entry.
AttemptFailsTimesOut ==
    /\ pc = "awaiting"
    /\ \/ \E r \in Responses :
            LET out == callModel(modelConfigs[idx], r) IN
              /\ ~out.ok
              /\ fetches' = Settle(r)
              /\ errors' = Append(errors,
                                  AttemptError(modelConfigs[idx],
                                               ErrorMessage(out.thrown)))
       \/ /\ fetches' = fetches
          /\ errors' = Append(errors,
                              AttemptError(modelConfigs[idx],
                                           <<"The operation was aborted due to timeout">>))
    /\ idx' = idx + 1
    /\ pc' = "loop"
    /\ UNCHANGED <<modelConfigs, result, thrown>>
    /\ UNCHANGED aux

\* The fetch settles and callModel rejects: the catch block records the
\* message and the loop continues.
AttemptFails ==
    /\ pc = "awaiting"
    /\ \E r \in Responses :
         LET out == callModel(modelConfigs[idx], r) IN
           /\ ~out.ok
           /\ fetches' = Settle(r)
           /\ errors' = Append(errors,
                               AttemptError(modelConfigs[idx], ErrorMessage(out.thrown)))
    /\ idx' = idx + 1
    /\ pc' = "loop"
    /\ UNCHANGED <<modelConfigs, result, thrown>>
    /\ UNCHANGED aux

\* Exhausted that goes through the list a second time before giving up.
ExhaustedRestartsOnce ==
    /\ pc = "loop"
    /\ idx > Len(modelConfigs)
    /\ IF Len(errors) <= Len(modelConfigs)
       THEN /\ idx' = 1
            /\ errors' = errors \o errors
            /\ UNCHANGED <<pc, thrown>>
       ELSE /\ thrown' = ExhaustedMessage(errors)
            /\ pc' = "thrown"
            /\ UNCHANGED <<idx, errors>>
    /\ UNCHANGED <<modelConfigs, fetches, result>>
    /\ UNCHANGED aux

\* The loop has run off the end of the list: throw new Error(...).
Exhausted ==
    /\ pc = "loop"
    /\ idx > Len(modelConfigs)
    /\ thrown' = ExhaustedMessage(errors)
    /\ pc' = "thrown"
    /\ UNCHANGED <<modelConfigs, idx, errors, fetches, result>>
    /\ UNCHANGED aux

Next ==
    \/ Invoke
    \/ SkipUnconfigured
    \/ Dispatch
    \/ DispatchUnknown
    \/ AttemptSucceeds
    \/ AttemptFails
    \/ Exhausted

Spec == Init /\ [][Next]_vars

(***************************************************************************)
(* Vocabulary of the properties.                                           *)
(***************************************************************************)
NumConfigs == Len(modelConfigs)

Configured(i) == modelConfigs[i].apiKey # ""

AllUnconfigured == \A i \in 1..NumConfigs : ~Configured(i)

\* The fetch j of this invocation was answered, and the adapter of its entry
\* turns the answer into a text / into a thrown value.
FetchSucceeded(j) ==
    fetches[j].settled /\ callModel(fetches[j].config, fetches[j].response).ok
FetchFailed(j) ==
    fetches[j].settled /\ ~callModel(fetches[j].config, fetches[j].response).ok

\* The list entries a fetch was issued for.
FetchedEntries == { fetches[j].idx : j \in 1..Len(fetches) }

\* The list entry i was attempted and its attempt failed.
EntryFailed(i) == \E j \in 1..Len(fetches) : fetches[j].idx = i /\ FetchFailed(j)

\* C1: when the invocation returns, the result is that of the entry of the
\* last fetch, that entry is configured, its fetch is the only one that
\* succeeded, every entry before it was skipped or failed (so it is the first
\* entry in list order that succeeds) and no fetch was issued for an entry
\* after it; and the invocation throws only if no fetch succeeded.
C1_FirstSuccessWins ==
    /\ pc = "returned" =>
         /\ fetches # <<>>
         /\ LET last == fetches[Len(fetches)] IN
              /\ last.idx \in 1..NumConfigs
              /\ Configured(last.idx)
              /\ FetchSucceeded(Len(fetches))
              /\ result.provider = modelConfigs[last.idx].provider
              /\ result.model = modelConfigs[last.idx].model
              /\ result.content = last.response.text
              /\ \A j \in 1..(Len(fetches) - 1) : FetchFailed(j)
              /\ \A i \in 1..(last.idx - 1) :
                    \/ ~Configured(i)
                    \/ modelConfigs[i].provider \notin KnownProviders
                    \/ EntryFailed(i)
              /\ \A i \in FetchedEntries : i <= last.idx
    /\ pc = "thrown" => \A j \in 1..Len(fetches) : FetchFailed(j)

\* C1 witness: the third entry's result is returned after an unconfigured
\* entry was skipped and a configured one failed.
C1_Witness ==
    /\ pc = "returned"
    /\ NumConfigs = 3
    /\ Len(fetches) = 2
    /\ fetches[2].idx = 3
    /\ \E i \in 1..2 : ~Configured(i)

\* C2: with every entry unconfigured the invocation issues no fetch, never
\* waits and never returns: from the loop it can only skip or throw, and
\* what it throws is the exhaustion error.
C2_AllUnconfiguredFails ==
    AllUnconfigured =>
        /\ fetches = <<>>
        /\ pc \in {"idle", "loop", "thrown"}
        /\ result = NoResult
        /\ pc = "loop" => ENABLED (SkipUnconfigured \/ Exhausted)
        /\ pc = "thrown" => /\ thrown # <<>>
                            /\ SubSeq(thrown, 1, 1) = ExhaustedHeader

\* C2 witness: a list of two or more unconfigured entries has been exhausted.
C2_Witness ==
    /\ AllUnconfigured
    /\ NumConfigs >= 2
    /\ pc = "thrown"

\* C3: no fetch is ever issued for an entry with an empty credential, and
\* the step the loop takes at such an entry appends exactly one record, for
\* that entry, issues no fetch and moves on to the next entry.
C3_UnconfiguredSkipped ==
    /\ [](\A j \in 1..Len(fetches) : fetches[j].config.apiKey # "")
    /\ [][ (pc = "loop" /\ idx <= NumConfigs /\ ~Configured(idx)) =>
             /\ Len(errors') = Len(errors) + 1
             /\ SubSeq(errors', 1, Len(errors)) = errors
             /\ errors'[Len(errors')].config = modelConfigs[idx]
             /\ fetches' = fetches
             /\ idx' = idx + 1
             /\ pc' = "loop" ]_vars

\* C3 witness: an unconfigured entry was skipped between two attempts.
C3_Witness ==
    /\ Len(fetches) = 2
    /\ fetches[1].idx = 1
    /\ fetches[2].idx = 3
    /\ ~Configured(2)
    /\ Len(errors) >= 2
    /\ errors[2].config = modelConfigs[2]

\* What the catch block is handed when the attempt of fetch j fails.
FetchThrown(j) == callModel(fetches[j].config, fetches[j].response).thrown

UnknownProvider(i) == modelConfigs[i].provider \notin KnownProviders

\* C4: a failed attempt (HTTP error status, invalid body, rejected fetch,
\* unknown provider tag, thrown non-Error value) is recorded in the error
\* list at its entry's position and the loop goes on with the next entry:
\* the step that observes the failure never throws, and the invocation
\* throws only with the loop past the end of the list.
C4_AttemptFailureRecovered ==
    /\ [](pc = "thrown" => idx = NumConfigs + 1 /\ Len(errors) = NumConfigs)
    /\ [](\A j \in 1..Len(fetches) :
            FetchFailed(j) =>
              /\ Len(errors) >= fetches[j].idx
              /\ errors[fetches[j].idx].config = fetches[j].config
              /\ errors[fetches[j].idx].error =
                   IF FetchThrown(j).isError THEN FetchThrown(j).message
                   ELSE <<ToString(FetchThrown(j).num)>>)
    /\ [][ pc = "awaiting" =>
             /\ thrown' = <<>>
             /\ pc' \in {"returned", "loop"}
             /\ pc' = "loop" =>
                  /\ idx' = idx + 1
                  /\ Len(errors') = Len(errors) + 1
                  /\ errors'[Len(errors')].config = modelConfigs[idx] ]_vars
    /\ [][ (pc = "loop" /\ idx <= NumConfigs /\ Configured(idx)
              /\ UnknownProvider(idx)) =>
             /\ thrown' = <<>>
             /\ pc' = "loop"
             /\ idx' = idx + 1
             /\ errors' = Append(errors,
                    AttemptError(modelConfigs[idx],
                                 <<"Unknown provider: ", modelConfigs[idx].provider>>))
         ]_vars

\* C4 witness: after an HTTP 429, an unknown provider tag and a thrown
\* number, all three are in the error list and the loop is still running.
C4_Witness ==
    /\ pc = "loop"
    /\ Len(errors) = 3
    /\ \E i, j, k \in 1..3 :
         /\ errors[i].error = <<"503">>
         /\ errors[j].error = <<"Unknown provider: ", "mistral">>
         /\ Len(errors[k].error) = 5
         /\ errors[k].error[3] = "429"

\* The text after the header of a message, cut at its newlines.
RECURSIVE SplitLines(_)
SplitLines(s) ==
    IF \A i \in 1..Len(s) : s[i] # NL THEN <<s>>
    ELSE LET k == CHOOSE i \in 1..Len(s) :
                    s[i] = NL /\ \A j \in 1..(i - 1) : s[j] # NL
         IN  <<SubSeq(s, 1, k - 1)>> \o SplitLines(SubSeq(s, k + 1, Len(s)))

\* C5: a settled invocation has thrown exactly when none of its fetches
\* succeeded, and then the error list holds one record per list entry, in
\* list order (a skipped entry has no fetch, an attempted known-provider
\* entry has a failed one), and the thrown message has one line per record
\* after its header.
C5_FailsIffNoSuccess ==
    /\ pc \in {"returned", "thrown"} =>
         (pc = "thrown" <=> ~\E j \in 1..Len(fetches) : FetchSucceeded(j))
    /\ pc = "thrown" =>
         /\ Len(errors) = NumConfigs
         /\ \A i \in 1..NumConfigs :
              /\ errors[i].config = modelConfigs[i]
              /\ ~Configured(i) => i \notin FetchedEntries
              /\ (Configured(i) /\ ~UnknownProvider(i)) => EntryFailed(i)
         /\ NumConfigs >= 1 =>
              /\ Len(SplitLines(thrown)) = NumConfigs + 1
              /\ \A i \in 1..NumConfigs :
                   SplitLines(thrown)[i + 1] = ErrorLine(errors[i])

\* C5 witness: a list with a skipped, a failed and an unknown-provider entry
\* has been exhausted.
C5_Witness ==
    /\ pc = "thrown"
    /\ NumConfigs = 3
    /\ \E i, j, k \in 1..3 :
         /\ ~Configured(i)
         /\ EntryFailed(j)
         /\ Configured(k) /\ UnknownProvider(k)

\* The error text the code records for entry i of an exhausted list.
ExpectedError(i) ==
    IF ~Configured(i) THEN <<"API key not configured">>
    ELSE IF UnknownProvider(i)
         THEN <<"Unknown provider: ", modelConfigs[i].provider>>
    ELSE LET j == CHOOSE j \in 1..Len(fetches) : fetches[j].idx = i
         IN  ErrorMessage(FetchThrown(j))

\* "{provider}/{model}: {error}" for every entry of the list, in list order.
ExpectedLines ==
    [i \in 1..NumConfigs |->
        <<modelConfigs[i].provider, "/", modelConfigs[i].model, ": ">>
            \o ExpectedError(i)]

\* C6 as stated: the message of the exhaustion error is the newline-joined
\* sequence of the lines "{provider}/{model}: {error}".
C6_Original == pc = "thrown" => thrown = Join(ExpectedLines)

\* C6 as amended: the message of the exhaustion error is the fixed header
\* line "All AI models failed. ...:", a newline, and then the newline-joined
\* sequence of the lines "{provider}/{model}: {error}", one for every
\* configuration (configured and unconfigured) in list order.
C6_ExhaustedMessage ==
    pc = "thrown" => thrown = ExhaustedHeader \o <<NL>> \o Join(ExpectedLines)

\* C6 witness: the message of an exhausted list of three entries, one of
\* them unconfigured and one that failed with HTTP 429.
C6_Witness ==
    /\ pc = "thrown"
    /\ NumConfigs = 3
    /\ \E i \in 1..3 : ~Configured(i)
    /\ \E j \in 1..Len(fetches) : fetches[j].response.status = 429
    /\ Len(SplitLines(thrown)) = 4

\* C7: when entries 1..k have failed (or were skipped) and entry k+1
\* succeeds, the FallbackResponse carries the provider and model of entry
\* k+1, the text its adapter returned, and success = true.
C7_Attribution ==
    pc = "returned" =>
        LET last == fetches[Len(fetches)]
            k == last.idx - 1
        IN  /\ Len(errors) = k
            /\ \A i \in 1..k : errors[i].config = modelConfigs[i]
            /\ result = [content |-> last.response.text,
                         provider |-> modelConfigs[k + 1].provider,
                         model |-> modelConfigs[k + 1].model,
                         success |-> TRUE]

\* C7 witness: entries 1 and 2 failed with HTTP errors and entry 3, of
\* another provider and model than entry 1, answered "hello".
C7_Witness ==
    /\ pc = "returned"
    /\ Len(fetches) = 3
    /\ fetches[1].response.status = 429
    /\ fetches[2].response.status = 429
    /\ modelConfigs[3].provider # modelConfigs[1].provider
    /\ result.content = <<"hello">>

\* C8 as stated: when the result of the entry at 0-based index i is
\* returned, exactly i+1 adapter calls were made (idx is 1-based: i+1).
C8_Original ==
    pc = "returned" => Len(fetches) = fetches[Len(fetches)].idx

\* Entries before position i for which no adapter is called.
NotCalledBefore(i) ==
    { h \in 1..(i - 1) : ~Configured(h) \/ UnknownProvider(h) }

\* C8 as amended: when the result of the entry at 0-based index i is
\* returned, the number of adapter calls made is i+1 minus the number of
\* entries before it that have an empty credential (or a provider tag the
\* dispatcher does not know): one call per configured entry up to i.
C8_CallCount ==
    pc = "returned" =>
        LET last == fetches[Len(fetches)]
        IN  Len(fetches) = last.idx - Cardinality(NotCalledBefore(last.idx))

\* C8 witness: the entry at index 2 is returned after one skipped entry and
\* one failed call: two calls, not three.
C8_Witness ==
    /\ pc = "returned"
    /\ fetches[Len(fetches)].idx = 3
    /\ Len(fetches) = 2
    /\ Cardinality({h \in 1..2 : ~Configured(h)}) = 1

\* Entry i was attempted and answered with a non-2xx HTTP status.
HttpFailed(i) ==
    \E j \in 1..Len(fetches) :
        /\ fetches[j].idx = i
        /\ fetches[j].settled
        /\ fetches[j].response.kind = "http"
        /\ ~ResponseOk(fetches[j].response)

\* The (provider, model) pairs the thrown message lists after its header.
ListedEntries ==
    LET body == SelectSeq(Tail(SplitLines(thrown)), LAMBDA l : l # <<>>)
    IN  [i \in 1..Len(body) |-> <<body[i][1], body[i][3]>>]

EntriesFrom(k) ==
    [i \in 1..(NumConfigs - k) |->
        <<modelConfigs[k + i].provider, modelConfigs[k + i].model>>]

\* C9 as stated: if entries 1..k failed with HTTP errors and the list is
\* exhausted, the aggregated error lists exactly the entries k+1..n.
C9_Original ==
    pc = "thrown" =>
        \A k \in 0..NumConfigs :
            (\A i \in 1..k : HttpFailed(i)) => ListedEntries = EntriesFrom(k)

\* C9 as amended: if entries 1..k failed with HTTP errors and the list is
\* exhausted, the aggregated error lists all the entries 1..n (the k that
\* failed with HTTP errors included), in the order of the input list.
C9_ListsAllEntries ==
    pc = "thrown" =>
        /\ ListedEntries = EntriesFrom(0)
        /\ \A i \in 1..NumConfigs :
             HttpFailed(i) =>
               LET j == CHOOSE j \in 1..Len(fetches) : fetches[j].idx = i
               IN  /\ Len(SplitLines(thrown)[i + 1]) = 9
                   /\ SubSeq(SplitLines(thrown)[i + 1], 6, 9) =
                         <<" API error: ", ToString(fetches[j].response.status),
                           " ", fetches[j].response.statusText>>

\* C9 witness: entries 1 and 2 of a list of three failed with HTTP errors
\* and the list is exhausted.
C9_Witness ==
    /\ pc = "thrown"
    /\ NumConfigs = 3
    /\ HttpFailed(1)
    /\ HttpFailed(2)
    /\ modelConfigs[1] # modelConfigs[3]

\* C10: the fetches of one invocation are issued for list entries of
\* strictly increasing position, each with the configuration at that
\* position (a subsequence of the list, no entry twice); a new fetch is
\* only ever appended, for the entry the loop is at; and the loop position
\* never moves back within an invocation.
C10_NoReorderNoRetry ==
    /\ [](\A j \in 1..Len(fetches) :
            /\ fetches[j].idx \in 1..NumConfigs
            /\ fetches[j].config = modelConfigs[fetches[j].idx])
    /\ [](\A j, k \in 1..Len(fetches) : j < k => fetches[j].idx < fetches[k].idx)
    /\ [][ Len(fetches') > Len(fetches) =>
             fetches' = Append(fetches, Fetch(idx, modelConfigs[idx])) ]_vars
    /\ [][ pc # "loop" \/ pc' # "loop" \/ idx' = idx + 1 ]_vars
    /\ [][ pc' = "loop" /\ pc \in {"loop", "awaiting"} => idx' > idx ]_vars

\* C10 witness: three entries were attempted, one after the other.
C10_Witness ==
    /\ Len(fetches) = 3
    /\ fetches[3].settled
    /\ modelConfigs[1] # modelConfigs[2]

\* The fetches of the invocation that are in flight.
InFlight == { j \in 1..Len(fetches) : ~fetches[j].settled }

\* C11: at most one fetch of an invocation is in flight at any time, it is
\* the one issued last and the invocation is suspended on it; a new fetch
\* is issued only when every earlier one has been answered.
C11_StrictlySequential ==
    /\ [](Cardinality(InFlight) <= 1)
    /\ [](\A j \in InFlight : j = Len(fetches) /\ pc = "awaiting")
    /\ [](pc = "awaiting" => InFlight = {Len(fetches)})
    /\ [][ Len(fetches') > Len(fetches) =>
             \A j \in 1..Len(fetches) : fetches[j].settled ]_vars

\* C11 witness: the second fetch is in flight after the first was answered.
C11_Witness ==
    /\ Len(fetches) = 2
    /\ fetches[1].settled
    /\ ~fetches[2].settled
    /\ pc = "awaiting"

(***************************************************************************)
(* Concurrent invocations of callModelWithFallback.  Each request runs its *)
(* own invocation with its own locals (idx, errors, the pending fetch);    *)
(* the module-level modelConfigs is the only thing they all read.  A step  *)
(* is what one invocation does between two suspension points.              *)
(***************************************************************************)
\* Longest configuration list explored with concurrent invocations.
MaxConcConfigs == 2

ConcPool ==
    { ModelConfig("gemini", "gemini-2.5-flash", "GEMINI_API_KEY"),
      ModelConfig("gemini", "gemini-1.5-pro", ""),
      ModelConfig("openai", "gpt-4-turbo", "OPENAI_API_KEY"),
      ModelConfig("mistral", "mistral-large", "MISTRAL_API_KEY") }

ConcConfigLists == UNION { [1..n -> ConcPool] : n \in 0..MaxConcConfigs }

ConcResponses ==
    { HttpResponse(200, "OK", "text", <<"hello">>),
      HttpResponse(429, "Too Many Requests", "malformed", <<>>),
      FetchRejects(NumberValue(503)) }

InitConc ==
    /\ modelConfigs \in ConcConfigLists
    /\ pc = "idle"
    /\ idx = 1
    /\ errors = <<>>
    /\ fetches = <<>>
    /\ result = NoResult
    /\ thrown = <<>>
    /\ inv = [p \in Procs |-> LocalIdle]
    /\ behaviour = <<>>
    /\ outcomes = {}
    /\ probe = ProbeIdle
    /\ listed = NotListed
    /\ attempt = AttemptIdle
    /\ AppIdle

\* The configuration the loop of invocation p is at.
Current(p) == modelConfigs[inv[p].idx]

\* The record of the fetch that has just been answered with r.
Settled(f, r) == [f EXCEPT !.settled = TRUE, !.response = r]

\* ConcInvoke with a module-level rotation: each settled call moves the
\* entry the next call starts at.
ConcInvokeRoundRobin(p) ==
    /\ inv[p].pc \in {"idle", "returned", "thrown"}
    /\ inv' = [inv EXCEPT
                 ![p] = Local("loop", 1 + Cardinality(outcomes), <<>>, <<>>,
                              NoResult, <<>>)]
    /\ UNCHANGED <<vars, behaviour, opsVars, attemptVars, appVars>>

\* Request p enters callModelWithFallback.
ConcInvoke(p) ==
    /\ inv[p].pc \in {"idle", "returned", "thrown"}
    /\ inv' = [inv EXCEPT ![p] = Local("loop", 1, <<>>, <<>>, NoResult, <<>>)]
    /\ UNCHANGED <<vars, behaviour, opsVars, attemptVars, appVars>>

\* if (!config.apiKey) { errors.push(...); continue; }
ConcSkip(p) ==
    /\ inv[p].pc = "loop"
    /\ inv[p].idx <= Len(modelConfigs)
    /\ Current(p).apiKey = ""
    /\ inv' = [inv EXCEPT
                 ![p].errors = Append(@, AttemptError(Current(p),
                                                      <<"API key not configured">>)),
                 ![p].idx = @ + 1]
    /\ UNCHANGED <<vars, behaviour, opsVars, attemptVars, appVars>>

\* await callModel(...): the adapter issues its fetch and p is suspended.
ConcDispatch(p) ==
    /\ inv[p].pc = "loop"
    /\ inv[p].idx <= Len(modelConfigs)
    /\ Current(p).apiKey # ""
    /\ Current(p).provider \in KnownProviders
    /\ inv' = [inv EXCEPT
                 ![p].fetches = Append(@, Fetch(inv[p].idx, Current(p))),
                 ![p].pc = "awaiting"]
    /\ UNCHANGED <<vars, behaviour, opsVars, attemptVars, appVars>>

\* callModel throws for an unknown provider tag and the catch records it.
ConcDispatchUnknown(p) ==
    /\ inv[p].pc = "loop"
    /\ inv[p].idx <= Len(modelConfigs)
    /\ Current(p).apiKey # ""
    /\ Current(p).provider \notin KnownProviders
    /\ inv' = [inv EXCEPT
                 ![p].errors = Append(@, AttemptError(Current(p),
                         ErrorMessage(callModel(Current(p), NoResponse).thrown))),
                 ![p].idx = @ + 1]
    /\ UNCHANGED <<vars, behaviour, opsVars, attemptVars, appVars>>

\* The fetch of p is answered with r and callModel resolves: p returns.
ConcSucceeds(p, r) ==
    /\ inv[p].pc = "awaiting"
    /\ callModel(Current(p), r).ok
    /\ inv' = [inv EXCEPT
                 ![p].fetches = [@ EXCEPT ![Len(@)] = Settled(@, r)],
                 ![p].result = FallbackResponse(callModel(Current(p), r).text,
                                                Current(p)),
                 ![p].pc = "returned"]
    /\ UNCHANGED <<vars, behaviour, opsVars, attemptVars, appVars>>

\* ConcFails with `errors` declared at module level: every invocation in
\* progress sees the record.
ConcFailsSharedErrors(p, r) ==
    /\ inv[p].pc = "awaiting"
    /\ ~callModel(Current(p), r).ok
    /\ inv' = [q \in Procs |->
                 IF q = p
                 THEN [inv[p] EXCEPT
                         !.fetches = [@ EXCEPT ![Len(@)] = Settled(@, r)],
                         !.errors = Append(@, AttemptError(Current(p),
                                ErrorMessage(callModel(Current(p), r).thrown))),
                         !.idx = @ + 1,
                         !.pc = "loop"]
                 ELSE IF inv[q].pc \in {"loop", "awaiting"}
                      THEN [inv[q] EXCEPT
                              !.errors = Append(@, AttemptError(Current(p),
                                 ErrorMessage(callModel(Current(p), r).thrown)))]
                      ELSE inv[q]]
    /\ UNCHANGED <<vars, behaviour, opsVars, attemptVars, appVars>>

\* The fetch of p is answered with r and callModel rejects: the catch block
\* of p records the message and its loop continues.
ConcFails(p, r) ==
    /\ inv[p].pc = "awaiting"
    /\ ~callModel(Current(p), r).ok
    /\ inv' = [inv EXCEPT
                 ![p].fetches = [@ EXCEPT ![Len(@)] = Settled(@, r)],
                 ![p].errors = Append(@, AttemptError(Current(p),
                                ErrorMessage(callModel(Current(p), r).thrown))),
                 ![p].idx = @ + 1,
                 ![p].pc = "loop"]
    /\ UNCHANGED <<vars, behaviour, opsVars, attemptVars, appVars>>

\* The loop of p has run off the end of the list: throw new Error(...).
ConcExhausted(p) ==
    /\ inv[p].pc = "loop"
    /\ inv[p].idx > Len(modelConfigs)
    /\ inv' = [inv EXCEPT
                 ![p].thrown = ExhaustedMessage(inv[p].errors),
                 ![p].pc = "thrown"]
    /\ UNCHANGED <<vars, behaviour, opsVars, attemptVars, appVars>>

NextConc ==
    \/ \E p \in Procs : ConcInvoke(p) /\ UNCHANGED outcomes
    \/ \E p \in Procs : ConcSkip(p) /\ UNCHANGED outcomes
    \/ \E p \in Procs : ConcDispatch(p) /\ UNCHANGED outcomes
    \/ \E p \in Procs : ConcDispatchUnknown(p) /\ UNCHANGED outcomes
    \/ \E p \in Procs : \E r \in ConcResponses : ConcSucceeds(p, r) /\ UNCHANGED outcomes
    \/ \E p \in Procs : \E r \in ConcResponses : ConcFails(p, r) /\ UNCHANGED outcomes
    \/ \E p \in Procs : ConcExhausted(p) /\ UNCHANGED outcomes

SpecConc == InitConc /\ [][NextConc]_allVars

\* callModelWithFallback run on its own from local state st, answered with
\* the responses resps in order, up to the fetch nothing answers yet.
RECURSIVE RunAlone(_, _, _)
RunAlone(cfgs, st, resps) ==
    IF st.idx > Len(cfgs)
    THEN [st EXCEPT !.pc = "thrown", !.thrown = ExhaustedMessage(st.errors)]
    ELSE LET config == cfgs[st.idx] IN
      IF config.apiKey = ""
      THEN RunAlone(cfgs,
                    [st EXCEPT !.errors = Append(@, AttemptError(config,
                                                   <<"API key not configured">>)),
                               !.idx = @ + 1],
                    resps)
      ELSE IF config.provider \notin KnownProviders
      THEN RunAlone(cfgs,
                    [st EXCEPT !.errors = Append(@, AttemptError(config,
                                   ErrorMessage(callModel(config, NoResponse).thrown))),
                               !.idx = @ + 1],
                    resps)
      ELSE IF resps = <<>>
      THEN [st EXCEPT !.pc = "awaiting",
                      !.fetches = Append(@, Fetch(st.idx, config))]
      ELSE LET out == callModel(config, Head(resps))
               f == Settled(Fetch(st.idx, config), Head(resps))
           IN  IF out.ok
               THEN [st EXCEPT !.pc = "returned",
                               !.fetches = Append(@, f),
                               !.result = FallbackResponse(out.text, config)]
               ELSE RunAlone(cfgs,
                             [st EXCEPT !.errors = Append(@, AttemptError(config,
                                                       ErrorMessage(out.thrown))),
                                        !.idx = @ + 1,
                                        !.fetches = Append(@, f)],
                             Tail(resps))

\* The answers invocation p has received so far, in order.
Answers(p) ==
    LET done == SelectSeq(inv[p].fetches, LAMBDA f : f.settled)
    IN  [j \in 1..Len(done) |-> done[j].response]

\* C12: under every interleaving, a step of one invocation leaves the
\* locals of every other invocation and the configuration list untouched,
\* and at each suspension point and at its end an invocation's position,
\* fetches, error list and result are those of the invocation run alone
\* against the answers it received.
C12_Independent ==
    /\ [](\A p \in Procs :
            inv[p].pc \in {"awaiting", "returned", "thrown"} =>
              inv[p] = RunAlone(modelConfigs,
                                Local("loop", 1, <<>>, <<>>, NoResult, <<>>),
                                Answers(p)))
    /\ [][ /\ modelConfigs' = modelConfigs
           /\ \A p, q \in Procs :
                (p # q /\ inv'[p] # inv[p]) => inv'[q] = inv[q] ]_allVars

\* C12 witness: one request has exhausted the list while the other, started
\* in between and answered differently, is still waiting for its second
\* fetch.
C12_Witness ==
    \E p, q \in Procs :
      /\ p # q
      /\ inv[p].pc = "thrown"
      /\ Len(inv[p].fetches) = 2
      /\ inv[q].pc = "awaiting"
      /\ Len(inv[q].fetches) = 2
      /\ inv[q].fetches[1].response # inv[p].fetches[1].response

(***************************************************************************)
(* Repeated invocations against providers that answer deterministically:   *)
(* behaviour[i] is what the provider of list entry i answers, every time.  *)
(***************************************************************************)
InitRepeat ==
    /\ modelConfigs \in ConcConfigLists
    /\ pc = "idle"
    /\ idx = 1
    /\ errors = <<>>
    /\ fetches = <<>>
    /\ result = NoResult
    /\ thrown = <<>>
    /\ inv = [p \in Procs |-> LocalIdle]
    /\ behaviour \in [1..Len(modelConfigs) -> ConcResponses]
    /\ outcomes = {}
    /\ probe = ProbeIdle
    /\ listed = NotListed
    /\ attempt = AttemptIdle
    /\ AppIdle

\* What a settled invocation reports to its caller: the provider and model
\* of the response, or the exhaustion error.
Attribution(st) ==
    IF st.pc = "returned" THEN <<st.result.provider, st.result.model>>
    ELSE <<"All AI models failed", "">>

NextRepeat ==
    \/ \E p \in Procs : ConcInvoke(p) /\ UNCHANGED outcomes
    \/ \E p \in Procs : ConcSkip(p) /\ UNCHANGED outcomes
    \/ \E p \in Procs : ConcDispatch(p) /\ UNCHANGED outcomes
    \/ \E p \in Procs : ConcDispatchUnknown(p) /\ UNCHANGED outcomes
    \/ \E p \in Procs : /\ ConcSucceeds(p, behaviour[inv[p].idx])
                        /\ outcomes' = outcomes \cup {Attribution(inv'[p])}
    \/ \E p \in Procs : ConcFails(p, behaviour[inv[p].idx]) /\ UNCHANGED outcomes
    \/ \E p \in Procs : /\ ConcExhausted(p)
                        /\ outcomes' = outcomes \cup {Attribution(inv'[p])}

SpecRepeat == InitRepeat /\ [][NextRepeat]_allVars

IsSettled(p) == inv[p].pc \in {"returned", "thrown"}

\* C13: with an unchanged list and deterministic providers, all the
\* invocations settled so far reported one and the same attribution, and
\* two settled invocations tried the same entries in the same order, with
\* the same error list and the same result.
C13_SameAttribution ==
    /\ Cardinality(outcomes) <= 1
    /\ \A p, q \in Procs : (IsSettled(p) /\ IsSettled(q)) => inv[p] = inv[q]
    /\ \A p \in Procs : IsSettled(p) => Attribution(inv[p]) \in outcomes

\* C13 witness: the second entry answered after the first failed, for both
\* requests, and that is the only attribution ever reported.
C13_Witness ==
    /\ \A p \in Procs : inv[p].pc = "returned" /\ Len(inv[p].fetches) = 2
    /\ Cardinality(outcomes) = 1
    /\ modelConfigs[1] # modelConfigs[2]

(***************************************************************************)
(* The secondary operations, next to a callModelWithFallback invocation:   *)
(* getAvailableModels and checkModelAvailability.                          *)
(***************************************************************************)
\* getAvailableModels with the filter predicate always true.
getAvailableModelsUnfiltered(cfgs) == SelectSeq(cfgs, LAMBDA config : TRUE)

\* return modelConfigs.filter((config) => !!config.apiKey)
getAvailableModels(cfgs) == SelectSeq(cfgs, LAMBDA config : config.apiKey # "")

\* One element of the array checkModelAvailability returns:
\* { config, available, error? }.
Available(config) ==
    [config |-> config, available |-> TRUE, hasError |-> FALSE, error |-> <<>>]
Unavailable(config, error) ==
    [config |-> config, available |-> FALSE, hasError |-> TRUE, error |-> error]

InitOps ==
    /\ modelConfigs \in ConcConfigLists
    /\ pc = "idle"
    /\ idx = 1
    /\ errors = <<>>
    /\ fetches = <<>>
    /\ result = NoResult
    /\ thrown = <<>>
    /\ AuxIdle

\* ListAvailable that filters the module-level list in place.
ListAvailableInPlace ==
    /\ listed' = Listed(getAvailableModels(modelConfigs))
    /\ modelConfigs' = getAvailableModels(modelConfigs)
    /\ pc \in {"idle", "returned", "thrown"}
    /\ probe.pc \in {"idle", "done"}
    /\ UNCHANGED <<pc, idx, errors, fetches, result, thrown>>
    /\ UNCHANGED <<concVars, probe, attemptVars, appVars>>

\* A caller calls getAvailableModels (synchronous: one step).
ListAvailable ==
    /\ listed' = Listed(getAvailableModels(modelConfigs))
    /\ UNCHANGED <<vars, concVars, probe, attemptVars, appVars>>

\* A caller invokes checkModelAvailability: `const results = []`.
ProbeInvoke ==
    /\ probe.pc \in {"idle", "done"}
    /\ probe' = Probe("loop", 1, <<>>, <<>>)
    /\ UNCHANGED <<vars, concVars, listed, attemptVars, appVars>>

\* if (!config.apiKey) { results.push({config, available: false, error}); continue; }
ProbeSkip ==
    /\ probe.pc = "loop"
    /\ probe.idx <= Len(modelConfigs)
    /\ modelConfigs[probe.idx].apiKey = ""
    /\ probe' = [probe EXCEPT
                   !.results = Append(@, Unavailable(modelConfigs[probe.idx],
                                                     <<"API key not configured">>)),
                   !.idx = @ + 1]
    /\ UNCHANGED <<vars, concVars, listed, attemptVars, appVars>>

\* await callModel(config, 'ping', undefined, 16, 0) for a known provider.
ProbeDispatch ==
    /\ probe.pc = "loop"
    /\ probe.idx <= Len(modelConfigs)
    /\ modelConfigs[probe.idx].apiKey # ""
    /\ modelConfigs[probe.idx].provider \in KnownProviders
    /\ probe' = [probe EXCEPT
                   !.fetches = Append(@, Fetch(probe.idx, modelConfigs[probe.idx])),
                   !.pc = "awaiting"]
    /\ UNCHANGED <<vars, concVars, listed, attemptVars, appVars>>

\* callModel throws for an unknown provider tag; the catch records it.
ProbeDispatchUnknown ==
    /\ probe.pc = "loop"
    /\ probe.idx <= Len(modelConfigs)
    /\ modelConfigs[probe.idx].apiKey # ""
    /\ modelConfigs[probe.idx].provider \notin KnownProviders
    /\ probe' = [probe EXCEPT
                   !.results = Append(@, Unavailable(modelConfigs[probe.idx],
                       ErrorMessage(callModel(modelConfigs[probe.idx],
                                              NoResponse).thrown))),
                   !.idx = @ + 1]
    /\ UNCHANGED <<vars, concVars, listed, attemptVars, appVars>>

\* ProbeSucceeds that returns at the first entry found available.
ProbeSucceedsStops ==
    /\ probe.pc = "awaiting"
    /\ \E r \in ConcResponses :
         /\ callModel(modelConfigs[probe.idx], r).ok
         /\ probe' = [probe EXCEPT
                        !.fetches = [@ EXCEPT ![Len(@)] = Settled(@, r)],
                        !.results = Append(@, Available(modelConfigs[probe.idx])),
                        !.pc = "done"]
    /\ UNCHANGED <<vars, concVars, listed, attemptVars, appVars>>

\* The probe is answered and callModel resolves:
\* results.push({config, available: true}); the loop goes on.
ProbeSucceeds ==
    /\ probe.pc = "awaiting"
    /\ \E r \in ConcResponses :
         /\ callModel(modelConfigs[probe.idx], r).ok
         /\ probe' = [probe EXCEPT
                        !.fetches = [@ EXCEPT ![Len(@)] = Settled(@, r)],
                        !.results = Append(@, Available(modelConfigs[probe.idx])),
                        !.idx = @ + 1,
                        !.pc = "loop"]
    /\ UNCHANGED <<vars, concVars, listed, attemptVars, appVars>>

\* ProbeFails that also takes the failing entry out of service by blanking
\* its credential in the module-level list.
ProbeFailsDisablesEntry ==
    /\ probe.pc = "awaiting"
    /\ \E r \in ConcResponses :
         /\ ~callModel(modelConfigs[probe.idx], r).ok
         /\ probe' = [probe EXCEPT
                        !.fetches = [@ EXCEPT ![Len(@)] = Settled(@, r)],
                        !.results = Append(@, Unavailable(modelConfigs[probe.idx],
                            ErrorMessage(callModel(modelConfigs[probe.idx], r).thrown))),
                        !.idx = @ + 1,
                        !.pc = "loop"]
    /\ modelConfigs' = [modelConfigs EXCEPT ![probe.idx].apiKey = ""]
    /\ UNCHANGED <<pc, idx, errors, fetches, result, thrown>>
    /\ UNCHANGED <<concVars, listed, attemptVars, appVars>>

\* The probe is answered and callModel rejects:
\* results.push({config, available: false, error}); the loop goes on.
ProbeFails ==
    /\ probe.pc = "awaiting"
    /\ \E r \in ConcResponses :
         /\ ~callModel(modelConfigs[probe.idx], r).ok
         /\ probe' = [probe EXCEPT
                        !.fetches = [@ EXCEPT ![Len(@)] = Settled(@, r)],
                        !.results = Append(@, Unavailable(modelConfigs[probe.idx],
                            ErrorMessage(callModel(modelConfigs[probe.idx], r).thrown))),
                        !.idx = @ + 1,
                        !.pc = "loop"]
    /\ UNCHANGED <<vars, concVars, listed, attemptVars, appVars>>

\* The loop has run off the end of the list: return results.
ProbeReturn ==
    /\ probe.pc = "loop"
    /\ probe.idx > Len(modelConfigs)
    /\ probe' = [probe EXCEPT !.pc = "done"]
    /\ UNCHANGED <<vars, concVars, listed, attemptVars, appVars>>

NextOps ==
    \/ Invoke
    \/ SkipUnconfigured
    \/ Dispatch
    \/ DispatchUnknown
    \/ AttemptSucceeds
    \/ AttemptFails
    \/ Exhausted
    \/ ListAvailable
    \/ ProbeInvoke
    \/ ProbeSkip
    \/ ProbeDispatch
    \/ ProbeDispatchUnknown
    \/ ProbeSucceeds
    \/ ProbeFails
    \/ ProbeReturn

SpecOps == InitOps /\ [][NextOps]_allVars

\* Positions of the configured entries, and the j-th of them in list order.
ConfiguredIdx == { i \in 1..NumConfigs : Configured(i) }
NthConfigured(j) ==
    CHOOSE i \in ConfiguredIdx : Cardinality({ h \in ConfiguredIdx : h <= i }) = j

\* C14: what getAvailableModels returns is exactly the entries of the list
\* with a non-empty credential, in their original order, and the call
\* issues no fetch and changes neither the list nor any invocation.
C14_ListAvailable ==
    /\ [](listed.called =>
            /\ Len(listed.value) = Cardinality(ConfiguredIdx)
            /\ \A j \in 1..Len(listed.value) :
                 listed.value[j] = modelConfigs[NthConfigured(j)])
    /\ [][ listed' # listed =>
             /\ fetches' = fetches
             /\ probe' = probe
             /\ inv' = inv
             /\ modelConfigs' = modelConfigs ]_allVars

\* C14 witness: of two entries the unconfigured first one was left out.
C14_Witness ==
    /\ listed.called
    /\ NumConfigs = 2
    /\ ~Configured(1)
    /\ listed.value = <<modelConfigs[2]>>

\* Entries for which checkModelAvailability calls an adapter.
ProbeCalled == { i \in 1..NumConfigs : Configured(i) /\ ~UnknownProvider(i) }

\* The probe of entry i was answered and the adapter returned a text.
ProbeOk(i) ==
    \E j \in 1..Len(probe.fetches) :
        /\ probe.fetches[j].idx = i
        /\ probe.fetches[j].settled
        /\ callModel(probe.fetches[j].config, probe.fetches[j].response).ok

\* C15: checkModelAvailability never throws; when it returns it has issued
\* exactly one fetch for every configured entry (with a provider the
\* dispatcher knows) and none for an unconfigured one, and its result has
\* one record per list entry, in list order, available exactly for the
\* entries whose probe succeeded; a probe that succeeds does not end the
\* loop, which goes on to the next entry.
C15_ProbesEveryEntry ==
    /\ [](probe.pc \in {"idle", "loop", "awaiting", "done"})
    /\ [](\A j, k \in 1..Len(probe.fetches) :
            j < k => probe.fetches[j].idx < probe.fetches[k].idx)
    /\ [](probe.pc = "done" =>
            /\ Len(probe.results) = NumConfigs
            /\ \A i \in 1..NumConfigs :
                 /\ probe.results[i].config = modelConfigs[i]
                 /\ probe.results[i].available <=> ProbeOk(i)
                 /\ probe.results[i].hasError <=> ~probe.results[i].available
            /\ { probe.fetches[j].idx : j \in 1..Len(probe.fetches) } = ProbeCalled
            /\ Len(probe.fetches) = Cardinality(ProbeCalled))
    /\ [][ (probe.pc = "awaiting" /\ probe' # probe) =>
             /\ probe'.pc = "loop"
             /\ probe'.idx = probe.idx + 1
             /\ Len(probe'.results) = Len(probe.results) + 1 ]_allVars

\* C15 witness: the first of two configured entries was found available
\* and the second was probed all the same.
C15_Witness ==
    /\ probe.pc = "done"
    /\ NumConfigs = 2
    /\ probe.results[1].available
    /\ Len(probe.fetches) = 2
    /\ ~probe.results[2].available

\* The answers the callModelWithFallback invocation has received so far.
FallbackAnswers ==
    LET done == SelectSeq(fetches, LAMBDA f : f.settled)
    IN  [j \in 1..Len(done) |-> done[j].response]

\* C16: no step of checkModelAvailability (or of getAvailableModels)
\* changes the list or the locals of a callModelWithFallback invocation,
\* and with probes interleaved the invocation is, at each suspension point
\* and at its end, where it would be run alone against the answers it
\* received: same entries tried in the same order, same outcome.
C16_ProbeLeavesFallbackAlone ==
    /\ [][ (probe' # probe \/ listed' # listed) => UNCHANGED vars ]_allVars
    /\ [](pc \in {"awaiting", "returned", "thrown"} =>
            Local(pc, idx, errors, fetches, result, thrown) =
              RunAlone(modelConfigs,
                       Local("loop", 1, <<>>, <<>>, NoResult, <<>>),
                       FallbackAnswers))

\* C16 witness: the probe has found an entry available and returned,
\* and the fallback invocation, answered otherwise, has exhausted the list.
C16_Witness ==
    /\ pc = "thrown"
    /\ fetches # <<>>
    /\ probe.pc = "done"
    /\ \E i \in 1..NumConfigs : probe.results[i].available

\* C17: no step of callModelWithFallback, checkModelAvailability or
\* getAvailableModels, successful or failing, changes the configuration
\* list: same entries, same provider, model and credential, same order.
C17_ConfigReadOnly == [][modelConfigs' = modelConfigs]_allVars

\* C17 witness: all three operations have run to their end on a list of
\* two entries, the fallback having failed at least once.
C17_Witness ==
    /\ NumConfigs = 2
    /\ pc \in {"returned", "thrown"}
    /\ errors # <<>>
    /\ probe.pc = "done"
    /\ listed.called

(***************************************************************************)
(* One attempt in detail: the arguments callModelWithFallback passes to    *)
(* callModel, the adapter chosen, the request the adapter sends, and the   *)
(* two awaits of the adapter (fetch, then response.json()).                *)
(***************************************************************************)
DEFAULT_TEMPERATURE == "0.7"
DEFAULT_MAX_TOKENS == 1024

\* A parameter with a default value: `x: number = d`.
Default(arg, d) == IF arg.given THEN arg.val ELSE d

\* The second argument of fetch, and its first: the method, the URL, the
\* header that carries the credential, and the fields of the JSON body.
\* (Content-Type, and OpenRouter's HTTP-Referer and X-Title, are left out.)
Request(url, header, credential, model, prompt, temperature, maxTokens) ==
    [method |-> "POST", url |-> url,
     auth |-> [header |-> header, value |-> credential],
     body |-> [model |-> model, prompt |-> prompt,
               temperature |-> temperature, maxTokens |-> maxTokens]]

\* callGemini's fetch: the model is part of the URL, not of the body.
GeminiRequest(model, apiKey, prompt, maxTokens, temperature) ==
    Request(<<"https://generativelanguage.googleapis.com/v1beta/models/",
              model, ":generateContent">>,
            "x-goog-api-key", <<apiKey>>, "", prompt, temperature, maxTokens)

\* The fetch of a chat-completions adapter.
ChatRequest(url, model, apiKey, prompt, maxTokens, temperature) ==
    Request(<<url>>, "Authorization", <<"Bearer ", apiKey>>, model, prompt,
            temperature, maxTokens)

OpenAIRequest(model, apiKey, prompt, maxTokens, temperature) ==
    ChatRequest("https://api.openai.com/v1/chat/completions",
                model, apiKey, prompt, maxTokens, temperature)

OpenRouterRequest(model, apiKey, prompt, maxTokens, temperature) ==
    ChatRequest("https://openrouter.ai/api/v1/chat/completions",
                model, apiKey, prompt, maxTokens, temperature)

GrokRequest(model, apiKey, prompt, maxTokens, temperature) ==
    ChatRequest("https://api.x.ai/v1/chat/completions",
                model, apiKey, prompt, maxTokens, temperature)

\* The adapter the switch of callModel calls for a known provider.
AdapterName(config) ==
    CASE config.provider = "gemini" -> "callGemini"
      [] config.provider = "openai" -> "callOpenAI"
      [] config.provider = "openrouter" -> "callOpenRouter"
      [] config.provider = "grok" -> "callGrok"

\* The request that adapter sends, called as callModel calls it.
AdapterRequest(config, prompt, maxTokens, temperature) ==
    CASE config.provider = "gemini" ->
           GeminiRequest(config.model, config.apiKey, prompt, maxTokens, temperature)
      [] config.provider = "openai" ->
           OpenAIRequest(config.model, config.apiKey, prompt, maxTokens, temperature)
      [] config.provider = "openrouter" ->
           OpenRouterRequest(config.model, config.apiKey, prompt, maxTokens, temperature)
      [] config.provider = "grok" ->
           GrokRequest(config.model, config.apiKey, prompt, maxTokens, temperature)

\* The entries an attempt is made for: the loop skips the others.
AttemptConfigs == { c \in ConfigPool : c.apiKey # "" }

\* Arguments of the callers: the flows pass a prompt alone or with a token
\* limit; checkModelAvailability passes ('ping', undefined, 16, 0).
Prompts == { <<"Summarise: ", "text">>, <<"ping">> }
MaxTokensArgs == { NoNumber, Given(16), Given(2048) }
TemperatureArgs == { NoDecimal, Given("0"), Given("1.2") }

\* What the network can answer to the adapter's fetch, with every shape
\* of body.
AttemptResponses ==
    { HttpResponse(200, "OK", b, <<"hello">>) : b \in BodyShapes }
      \cup { HttpResponse(200, "OK", "text", <<>>),
             HttpResponse(429, "Too Many Requests", "noList", <<>>),
             HttpResponse(500, "Internal Server Error", "malformed", <<>>),
             FetchRejects(ErrorValue(<<"fetch failed">>)),
             FetchRejects(NumberValue(503)) }

InitAttempt ==
    /\ modelConfigs = <<>>
    /\ pc = "idle"
    /\ idx = 1
    /\ errors = <<>>
    /\ fetches = <<>>
    /\ result = NoResult
    /\ thrown = <<>>
    /\ AuxIdle

\* AttemptCall with a callModel that does not hand the temperature on, so
\* that the adapter's own default applies.
AttemptCallDropsTemperature ==
    /\ attempt.pc = "idle"
    /\ \E config \in AttemptConfigs, prompt \in Prompts,
          maxTokens \in MaxTokensArgs, temperature \in TemperatureArgs :
         /\ config.provider \in KnownProviders
         /\ attempt' =
              [attempt EXCEPT
                 !.pc = "fetching", !.config = config, !.prompt = prompt,
                 !.maxTokens = maxTokens, !.temperature = temperature,
                 !.adapter = AdapterName(config),
                 !.posts = << AdapterRequest(config, prompt,
                                Default(maxTokens, DEFAULT_MAX_TOKENS),
                                Default(NoDecimal, DEFAULT_TEMPERATURE)) >>]
    /\ UNCHANGED <<vars, concVars, opsVars, appVars>>

\* callModelWithFallback is called with (prompt, schema, maxTokens,
\* temperature), its defaults are applied, the loop is at a configured
\* entry, callModel picks the adapter and the adapter issues its fetch.
AttemptCall ==
    /\ attempt.pc = "idle"
    /\ \E config \in AttemptConfigs, prompt \in Prompts,
          maxTokens \in MaxTokensArgs, temperature \in TemperatureArgs :
         /\ config.provider \in KnownProviders
         /\ attempt' =
              [attempt EXCEPT
                 !.pc = "fetching", !.config = config, !.prompt = prompt,
                 !.maxTokens = maxTokens, !.temperature = temperature,
                 !.adapter = AdapterName(config),
                 !.posts = << AdapterRequest(config, prompt,
                                Default(maxTokens, DEFAULT_MAX_TOKENS),
                                Default(temperature, DEFAULT_TEMPERATURE)) >>]
    /\ UNCHANGED <<vars, concVars, opsVars, appVars>>

\* The same for a provider tag outside the union type: callModel throws
\* from its default branch and no adapter runs.
AttemptCallUnknown ==
    /\ attempt.pc = "idle"
    /\ \E config \in AttemptConfigs, prompt \in Prompts,
          maxTokens \in MaxTokensArgs, temperature \in TemperatureArgs :
         /\ config.provider \notin KnownProviders
         /\ attempt' =
              [attempt EXCEPT
                 !.pc = "threw", !.config = config, !.prompt = prompt,
                 !.maxTokens = maxTokens, !.temperature = temperature,
                 !.outcome = callModel(config, NoResponse)]
    /\ UNCHANGED <<vars, concVars, opsVars, appVars>>

\* FetchSettles with an adapter that sends its request a second time
\* after a first response that is not ok.
FetchSettlesRetries(r) ==
    /\ attempt.pc = "fetching"
    /\ attempt' =
         IF r.kind = "http" /\ ResponseOk(r)
         THEN [attempt EXCEPT !.pc = "parsing", !.response = r]
         ELSE IF r.kind = "http" /\ Len(attempt.posts) = 1
         THEN [attempt EXCEPT !.posts = Append(@, @[1])]
         ELSE [attempt EXCEPT !.pc = "threw", !.response = r,
                              !.outcome = callModel(attempt.config, r)]
    /\ UNCHANGED <<vars, concVars, opsVars, appVars>>

\* `await fetch(...)` settles with r: a rejection propagates, a response
\* that is not ok throws the HTTP error, an ok response goes on to
\* `await response.json()`.
FetchSettles(r) ==
    /\ attempt.pc = "fetching"
    /\ attempt' =
         IF r.kind = "http" /\ ResponseOk(r)
         THEN [attempt EXCEPT !.pc = "parsing", !.response = r]
         ELSE [attempt EXCEPT !.pc = "threw", !.response = r,
                              !.outcome = callModel(attempt.config, r)]
    /\ UNCHANGED <<vars, concVars, opsVars, appVars>>

\* `await response.json()` settles and the adapter reads the text out of
\* the parsed body.
JsonSettles ==
    /\ attempt.pc = "parsing"
    /\ LET out == callModel(attempt.config, attempt.response)
       IN  attempt' = [attempt EXCEPT
                         !.pc = IF out.ok THEN "returned" ELSE "threw",
                         !.outcome = out]
    /\ UNCHANGED <<vars, concVars, opsVars, appVars>>

NextAttempt ==
    \/ AttemptCall
    \/ AttemptCallUnknown
    \/ \E r \in AttemptResponses : FetchSettles(r)
    \/ JsonSettles

SpecAttempt == InitAttempt /\ [][NextAttempt]_allVars

\* The attempt reached an adapter.
AdapterRan == attempt.pc # "idle" /\ attempt.config.provider \in KnownProviders

\* The attempt is over.
AttemptOver == attempt.pc \in {"returned", "threw"}

\* C18: an adapter invocation issues exactly one HTTP request, a POST:
\* from the moment the adapter runs to its end there is one request on
\* record, no step adds another, and a fetch that settles with a rejection
\* or with a response that is not ok ends the invocation with a failure in
\* that very step, after which nothing happens any more.
C18_OnePostNoRetry ==
    /\ [](AdapterRan => /\ Len(attempt.posts) = 1
                        /\ attempt.posts[1].method = "POST")
    /\ [][attempt.posts # <<>> => attempt.posts' = attempt.posts]_allVars
    /\ [][ (attempt.pc = "fetching" /\ attempt'.response # NoResponse
              /\ ~(attempt'.response.kind = "http"
                     /\ ResponseOk(attempt'.response)))
           => (attempt'.pc = "threw" /\ ~attempt'.outcome.ok) ]_allVars
    /\ [][attempt.pc = "threw" => attempt' = attempt]_allVars

\* C18 witness: the OpenAI adapter was answered 429 and has failed, with
\* its one request on record.
C18_Witness ==
    /\ attempt.pc = "threw"
    /\ attempt.adapter = "callOpenAI"
    /\ attempt.response.status = 429
    /\ Len(attempt.posts) = 1

\* The token tok occurs in the string s.
Contains(s, tok) == \E i \in 1..Len(s) : s[i] = tok

\* The body holds a text in the field the adapter reads.
HasTextField(r) == r.body = "text" /\ r.text # <<>>

\* C19 as stated: an adapter that got an HTTP response whose body, when
\* the status is successful, parses as JSON ends in one of three ways.  It
\* fails with the HTTP error, whose message holds the status code and the
\* reason phrase, when the status is not successful; it fails with the
\* invalid-response error when the status is successful and the body has
\* no text in the first candidate or choice; otherwise it returns that text.
C19_Original ==
    (AttemptOver /\ AdapterRan /\ attempt.response.kind = "http"
       /\ (ResponseOk(attempt.response) => attempt.response.body # "malformed"))
    => LET r == attempt.response
           out == attempt.outcome
           msg == out.thrown.message
       IN  IF ~ResponseOk(r)
           THEN /\ ~out.ok
                /\ out.thrown.isError
                /\ Contains(msg, " API error: ")
                /\ Contains(msg, ToString(r.status))
                /\ Contains(msg, r.statusText)
           ELSE IF ~HasTextField(r)
           THEN /\ ~out.ok
                /\ out.thrown.isError
                /\ msg # <<>>
                /\ Head(msg) = "Invalid response from "
           ELSE /\ out.ok
                /\ out.text = r.text

\* The adapter, and the first piece of the URL, that belong to a provider.
ExpectedAdapter ==
    [gemini |-> "callGemini", openai |-> "callOpenAI",
     openrouter |-> "callOpenRouter", grok |-> "callGrok"]
ExpectedEndpoint ==
    [gemini |-> "https://generativelanguage.googleapis.com/v1beta/models/",
     openai |-> "https://api.openai.com/v1/chat/completions",
     openrouter |-> "https://openrouter.ai/api/v1/chat/completions",
     grok |-> "https://api.x.ai/v1/chat/completions"]

\* C20: for a configured entry the loop attempts, the adapter that runs is
\* the one of config.provider and its request goes to that provider's
\* endpoint; the request carries the caller's prompt, the caller's
\* maxTokens if given and 1024 if not, and the caller's temperature if
\* given and 0.7 if not.
C20_AdapterAndArguments ==
    AdapterRan =>
      LET req == attempt.posts[1]
      IN  /\ attempt.adapter = ExpectedAdapter[attempt.config.provider]
          /\ Head(req.url) = ExpectedEndpoint[attempt.config.provider]
          /\ req.body.prompt = attempt.prompt
          /\ req.body.maxTokens =
               (IF attempt.maxTokens.given THEN attempt.maxTokens.val ELSE 1024)
          /\ req.body.temperature =
               (IF attempt.temperature.given THEN attempt.temperature.val
                ELSE "0.7")

\* C20 witness: the Grok entry was attempted with a token limit of 16 and
\* no temperature, and its adapter has returned.
C20_Witness ==
    /\ attempt.pc = "returned"
    /\ attempt.config.provider = "grok"
    /\ attempt.maxTokens = Given(16)
    /\ attempt.temperature = NoDecimal
    /\ attempt.posts[1].body.temperature = DEFAULT_TEMPERATURE

(***************************************************************************)
(* A fetch that never settles, and termination when every fetch settles.   *)
(***************************************************************************)
\* C21: there is no timeout and no cancellation.  While the fetch of an
\* attempt is pending the invocation stays suspended on it: the only step
\* the invocation can take is the one in which that fetch settles, so as
\* long as it has not settled the invocation has neither returned nor
\* thrown, the loop has not moved and no further fetch has been issued.
C21_NoTimeout ==
    /\ [][ pc = "awaiting" =>
             /\ Len(fetches') = Len(fetches)
             /\ fetches'[Len(fetches)].settled ]_vars
    /\ [](InFlight # {} =>
            /\ pc = "awaiting"
            /\ result = NoResult
            /\ thrown = <<>>
            /\ \A j \in 1..Len(fetches) : fetches[j].idx <= idx)

\* C21 witness: the fetch of the first entry is pending while a configured
\* entry of lower priority is waiting behind it.
C21_Witness ==
    /\ pc = "awaiting"
    /\ idx = 1
    /\ InFlight = {1}
    /\ NumConfigs >= 2
    /\ Configured(2)

\* The invocation with the scheduling the runtime gives it: a step of the
\* function that can run does run, and every fetch eventually settles,
\* successfully or not.  When a caller invokes the function is left open.
FairSpec ==
    /\ Spec
    /\ WF_vars(SkipUnconfigured)
    /\ WF_vars(Dispatch)
    /\ WF_vars(DispatchUnknown)
    /\ WF_vars(AttemptSucceeds \/ AttemptFails)
    /\ WF_vars(Exhausted)

\* The invocation is over.
Terminated == pc \in {"returned", "thrown"}

\* The configured entries of the list.
ConfiguredEntries == { i \in 1..NumConfigs : Configured(i) }

\* C22: if every fetch eventually settles, an invocation that has started
\* eventually returns a FallbackResponse or throws the exhaustion error;
\* at no time has it issued more fetches than the list has configured
\* entries.
C22_Terminates ==
    /\ (pc \in {"loop", "awaiting"}) ~> Terminated
    /\ [](Len(fetches) <= Cardinality(ConfiguredEntries))
    /\ [](pc = "returned" => result # NoResult /\ result.success)
    /\ [](pc = "thrown" => thrown = ExhaustedMessage(errors))

\* C22 witness: the invocation has thrown the exhaustion error after as
\* many fetches as there are configured entries, two of them.
C22_Witness ==
    /\ pc = "thrown"
    /\ Cardinality(ConfiguredEntries) = 2
    /\ Len(fetches) = 2

\* A successful response whose text field holds the empty string.
EmptyCompletion(r) ==
    r.kind = "http" /\ ResponseOk(r) /\ r.body = "text" /\ r.text = <<>>

\* C26: an empty completion is an invalid response.  Every FallbackResponse
\* returned has a content that is not empty, and the step in which a fetch
\* settles with a successful response holding the empty text records the
\* invalid-response error for the entry and moves the loop to the next one.
C26_EmptyCompletionInvalid ==
    /\ [](pc = "returned" => result.content # <<>>)
    /\ [][ (pc = "awaiting" /\ Len(fetches') = Len(fetches)
              /\ EmptyCompletion(fetches'[Len(fetches)].response))
           => /\ pc' = "loop"
              /\ idx' = idx + 1
              /\ Len(errors') = Len(errors) + 1
              /\ errors'[Len(errors')].config = modelConfigs[idx]
              /\ Head(errors'[Len(errors')].error) = "Invalid response from " ]_vars

\* C26 witness: the first entry answered with an empty completion and the
\* invocation has returned the text of the second.
C26_Witness ==
    /\ pc = "returned"
    /\ Len(fetches) = 2
    /\ EmptyCompletion(fetches[1].response)
    /\ result.content # <<>>
    /\ result.provider = fetches[2].config.provider

(***************************************************************************)
(* The AI flows: the primary Genkit prompt, then, in the flows that have   *)
(* one, the fallback chain (src/ai/flows).  callModelWithFallback is taken *)
(* by its outcome: a FallbackResponse or the exhaustion error.             *)
(***************************************************************************)
\* Flows whose catch block calls callModelWithFallback, and flows that
\* have the primary prompt only: parseServiceDetailsFlow and the earlier
\* handleInvoiceModificationsFlow.
FallbackFlows ==
    { "handleInvoiceModificationsFlow", "parseQuotationDetailsFlow",
      "parseReceiptDetailsFlow" }
PrimaryOnlyFlows ==
    { "parseServiceDetailsFlow", "handleInvoiceModificationsFlow (primary only)" }
Flows == FallbackFlows \cup PrimaryOnlyFlows

IsModification(kind) ==
    kind \in { "handleInvoiceModificationsFlow",
               "handleInvoiceModificationsFlow (primary only)" }

\* Strings that stand for JSON texts, and the ones JSON.parse accepts.
ValidJson ==
    { "{\"invoiceNumber\":\"7\",\"items\":[]}",
      "{\"invoiceNumber\":\"7\",\"items\":[{\"description\":\"wiper\"}]}" }
JsonParses(text) == text \in ValidJson

\* input.documentDetails: "either as a JSON string or a human-readable
\* summary".
DocumentDetails ==
    { "{\"invoiceNumber\":\"7\",\"items\":[]}", "Invoice 7, Ravi, no items" }

\* What a model can put into modifiedInvoiceDetails.
Details ==
    { "", "{\"invoiceNumber\":\"7\",\"items\":[",
      "{\"invoiceNumber\":\"7\",\"items\":[{\"description\":\"wiper\"}]}" }

\* What a parse prompt can extract.
DataShapes ==
    { NoData,
      Data(<<"N", "/", "A">>,
           <<" ", "N", "o", "t", " ", "a", "v", "a", "i", "l", "a", "b", "l", "e", " ">>,
           <<>>, <<>>),
      Data(<<>>, <<>>, <<>>, <<"engine oil">>),
      Data(<<"R", "a", "v", "i">>, <<"T", "S", "0", "9">>,
           <<"S", "w", "i", "f", "t">>, <<"engine oil">>) }

\* The outputs the primary prompt can resolve with.
PrimaryOutputs(kind) ==
    IF IsModification(kind)
    THEN { NullOutput }
           \cup { ModOutput(d, b, <<"Added 2 wiper blades">>) :
                    d \in Details \ {""}, b \in BOOLEAN }
    ELSE { NullOutput } \cup { ParseOutput(d) : d \in DataShapes }

\* The values the primary prompt can reject with.
PrimaryErrors ==
    { ErrorValue(<<"429 Too Many Requests: quota exceeded">>),
      ErrorValue(<<"API key", " not valid">>),
      ErrorValue(<<>>),
      NumberValue(503) }

\* The contents a FallbackResponse can hold.
Contents(kind) ==
    { Content("prose", "", "absent", <<>>, NoData),
      Content("braces", "", "absent", <<>>, NoData) }
      \cup
    IF IsModification(kind)
    THEN { Content("object", d, b, m, NoData) :
             d \in Details, b \in {"absent", "true", "false"},
             m \in { <<>>, <<"Removed engine oil">> } }
    ELSE { Content("object", "", "absent", <<>>, d) : d \in DataShapes }

\* The error the primary attempt leaves in `error`: what prompt() rejected
\* with, or the Error thrown at line 72 for a null output, or the
\* SyntaxError of JSON.parse at line 75.
PrimaryError(kind, settled) ==
    IF ~settled.ok THEN settled.thrown
    ELSE IF settled.value.isNull
    THEN ErrorValue(<<"Failed to modify document details.">>)
    ELSE ErrorValue(<<"Unexpected end of JSON input">>)

\* The primary attempt ends the flow with its output.
PrimaryAccepted(kind, settled) ==
    /\ settled.ok
    /\ IsModification(kind) =>
         (~settled.value.isNull /\ JsonParses(settled.value.modifiedInvoiceDetails))

\* error.message || d
MessageOr(e, d) == IF e.isError /\ e.message # <<>> THEN e.message ELSE d

\* `${error}`
ErrorToString(e) ==
    IF e.isError
    THEN (IF e.message = <<>> THEN <<"Error">> ELSE <<"Error: ">> \o e.message)
    ELSE String(e)

\* The object the modification flows return when everything failed.
Degraded(kind, documentDetails, error) ==
    ModOutput(documentDetails, FALSE,
              (IF kind \in FallbackFlows
               THEN <<"Failed to modify document - both primary and fallback APIs failed: ">>
               ELSE <<"Failed to modify document details: ">>)
                \o MessageOr(error, <<"Unknown error">>))

\* The Error the parse flows throw when everything failed.
BothFailed(kind, error) ==
    ErrorValue((IF kind = "parseQuotationDetailsFlow"
                THEN <<"Failed to parse quotation details - both primary and fallback APIs failed: ">>
                ELSE <<"Failed to parse receipt details - both primary and fallback APIs failed: ">>)
                 \o ErrorToString(error))

\* The try block after `await callModelWithFallback`: the value it returns,
\* or nothing (ok = FALSE) when it throws.
FallbackParsed(kind, settled) ==
    IF ~settled.ok \/ settled.content.shape # "object" THEN NotSettled
    ELSE IF ~IsModification(kind) THEN Resolved(ParseOutput(settled.content.data))
    ELSE IF /\ settled.content.modifiedInvoiceDetails # ""
            /\ settled.content.success # "absent"
            /\ settled.content.message # <<>>
            /\ JsonParses(settled.content.modifiedInvoiceDetails)
    THEN Resolved(ModOutput(settled.content.modifiedInvoiceDetails,
                            settled.content.success = "true",
                            settled.content.message))
    ELSE NotSettled

InitFlow ==
    /\ modelConfigs = <<>>
    /\ pc = "idle"
    /\ idx = 1
    /\ errors = <<>>
    /\ fetches = <<>>
    /\ result = NoResult
    /\ thrown = <<>>
    /\ AuxIdle

\* The flow is invoked: `await prompt(input)`.
FlowInvoke ==
    /\ flow.pc = "idle"
    /\ \E kind \in Flows :
         \E d \in (IF IsModification(kind) THEN DocumentDetails ELSE {""}) :
           flow' = [FlowIdle EXCEPT !.pc = "primary", !.kind = kind,
                                    !.documentDetails = d, !.primaryCalls = 1]
    /\ UNCHANGED <<fallbackVars, act, clock, link, hook>>

\* PrimarySucceeds of a flow that starts the fallback chain alongside the
\* primary prompt and so has called it when the primary output arrives.
PrimarySucceedsHedged ==
    /\ flow.pc = "primary"
    /\ \E o \in PrimaryOutputs(flow.kind) :
         /\ PrimaryAccepted(flow.kind, Resolved(o))
         /\ flow' = [flow EXCEPT !.pc = "returned", !.primary = Resolved(o),
                                 !.fallbackCalls = IF flow.kind \in FallbackFlows
                                                   THEN @ + 1 ELSE @,
                                 !.result = Resolved(o)]
    /\ UNCHANGED <<fallbackVars, act, clock, link, hook>>

\* The prompt resolves with an output the flow returns.
PrimarySucceeds ==
    /\ flow.pc = "primary"
    /\ \E o \in PrimaryOutputs(flow.kind) :
         /\ PrimaryAccepted(flow.kind, Resolved(o))
         /\ flow' = [flow EXCEPT !.pc = "returned", !.primary = Resolved(o),
                                 !.result = Resolved(o)]
    /\ UNCHANGED <<fallbackVars, act, clock, link, hook>>

\* The primary attempt fails in a flow with a fallback: the catch block
\* builds the fallback prompt and awaits callModelWithFallback.
PrimaryFails ==
    /\ flow.pc = "primary"
    /\ flow.kind \in FallbackFlows
    /\ \E settled \in { Resolved(o) : o \in PrimaryOutputs(flow.kind) }
                        \cup { Rejected(e) : e \in PrimaryErrors } :
         /\ ~PrimaryAccepted(flow.kind, settled)
         /\ flow' = [flow EXCEPT !.pc = "fallback", !.primary = settled,
                                 !.error = PrimaryError(flow.kind, settled),
                                 !.fallbackCalls = @ + 1]
    /\ UNCHANGED <<fallbackVars, act, clock, link, hook>>

\* The primary attempt fails in a flow without a fallback: the earlier
\* modification flow returns the degraded object, parseServiceDetailsFlow
\* lets the rejection through.
PrimaryFailsFinal ==
    /\ flow.pc = "primary"
    /\ flow.kind \in PrimaryOnlyFlows
    /\ \E settled \in { Resolved(o) : o \in PrimaryOutputs(flow.kind) }
                        \cup { Rejected(e) : e \in PrimaryErrors } :
         /\ ~PrimaryAccepted(flow.kind, settled)
         /\ flow' =
              IF IsModification(flow.kind)
              THEN [flow EXCEPT
                      !.pc = "returned", !.primary = settled,
                      !.error = PrimaryError(flow.kind, settled),
                      !.result = Resolved(Degraded(flow.kind, flow.documentDetails,
                                                   PrimaryError(flow.kind, settled)))]
              ELSE [flow EXCEPT !.pc = "threw", !.primary = settled,
                                !.error = settled.thrown,
                                !.result = Rejected(settled.thrown)]
    /\ UNCHANGED <<fallbackVars, act, clock, link, hook>>

\* callModelWithFallback returns a content the flow can use.
FallbackAccepted ==
    /\ flow.pc = "fallback"
    /\ \E c \in Contents(flow.kind) :
         /\ FallbackParsed(flow.kind, Completed(c)).ok
         /\ flow' = [flow EXCEPT !.pc = "returned", !.fallback = Completed(c),
                                 !.result = FallbackParsed(flow.kind, Completed(c))]
    /\ UNCHANGED <<fallbackVars, act, clock, link, hook>>

\* FallbackRejected of a modification flow that reports the failure the
\* way the parse flows do, by throwing.
FallbackRejectedThrows ==
    /\ flow.pc = "fallback"
    /\ \E settled \in { Completed(c) : c \in Contents(flow.kind) }
                        \cup { Failed(ErrorValue(ExhaustedMessage(<<>>))) } :
         /\ ~FallbackParsed(flow.kind, settled).ok
         /\ flow' = [flow EXCEPT !.pc = "threw", !.fallback = settled,
                                 !.result = Rejected(BothFailed(flow.kind, flow.error))]
    /\ UNCHANGED <<fallbackVars, act, clock, link, hook>>

\* callModelWithFallback throws, or returns a content the flow cannot use:
\* the inner catch returns the degraded object (modification) or throws
\* (parse flows).
FallbackRejected ==
    /\ flow.pc = "fallback"
    /\ \E settled \in { Completed(c) : c \in Contents(flow.kind) }
                        \cup { Failed(ErrorValue(ExhaustedMessage(<<>>))) } :
         /\ ~FallbackParsed(flow.kind, settled).ok
         /\ flow' =
              IF IsModification(flow.kind)
              THEN [flow EXCEPT
                      !.pc = "returned", !.fallback = settled,
                      !.result = Resolved(Degraded(flow.kind, flow.documentDetails,
                                                   flow.error))]
              ELSE [flow EXCEPT !.pc = "threw", !.fallback = settled,
                                !.result = Rejected(BothFailed(flow.kind, flow.error))]
    /\ UNCHANGED <<fallbackVars, act, clock, link, hook>>

NextFlow ==
    \/ FlowInvoke
    \/ PrimarySucceeds
    \/ PrimaryFails
    \/ PrimaryFailsFinal
    \/ FallbackAccepted
    \/ FallbackRejected

SpecFlow == InitFlow /\ [][NextFlow]_allVars

\* The primary attempt of the running flow has ended, and ended in failure:
\* the prompt rejected, or, in a modification flow, resolved with null or
\* with details that are not JSON.
PrimaryFailed ==
    /\ flow.pc \notin {"idle", "primary"}
    /\ ~PrimaryAccepted(flow.kind, flow.primary)

\* C23: in the flows with a fallback the primary prompt is tried first and
\* once; callModelWithFallback is called at most once, in the step in
\* which the primary attempt fails and never otherwise, so a flow that
\* returned the primary output has not called it.
C23_PrimaryFirst ==
    /\ [](flow.kind \in FallbackFlows =>
            /\ flow.primaryCalls = 1
            /\ flow.fallbackCalls <= 1
            /\ flow.fallbackCalls = 1 <=> PrimaryFailed)
    /\ [][ flow'.fallbackCalls > flow.fallbackCalls =>
             /\ flow.pc = "primary"
             /\ flow.fallbackCalls = 0
             /\ ~PrimaryAccepted(flow'.kind, flow'.primary) ]_allVars
    /\ [](flow.pc = "returned" /\ flow.result = flow.primary =>
            flow.fallbackCalls = 0)

\* C23 witness: parseReceiptDetailsFlow has returned what the fallback
\* chain produced after its primary prompt was rejected.
C23_Witness ==
    /\ flow.kind = "parseReceiptDetailsFlow"
    /\ flow.pc = "returned"
    /\ ~flow.primary.ok
    /\ flow.fallbackCalls = 1
    /\ flow.fallback.ok

\* The fallback answered with an object that has the three fields, the
\* details being JSON.
ValidStructure(c) ==
    /\ c.shape = "object"
    /\ c.modifiedInvoiceDetails # ""
    /\ JsonParses(c.modifiedInvoiceDetails)
    /\ c.success # "absent"
    /\ c.message # <<>>

\* C24: a modification flow never throws, and when its primary attempt
\* has failed and the fallback has failed too (the chain was exhausted,
\* the content lacks the valid structure, or the flow has no fallback) it
\* returns success = false with modifiedInvoiceDetails equal to the input
\* documentDetails.
C24_DegradesGracefully ==
    IsModification(flow.kind) =>
      /\ flow.pc # "threw"
      /\ (flow.pc = "returned" /\ PrimaryFailed
            /\ ~(flow.fallback.ok /\ ValidStructure(flow.fallback.content)))
         => /\ flow.result.ok
            /\ flow.result.value.success = FALSE
            /\ flow.result.value.modifiedInvoiceDetails = flow.documentDetails
            /\ flow.result.value.message # <<>>

\* C24 witness: the primary output was not JSON, the fallback answered
\* with an object without a message, and the flow has returned.
C24_Witness ==
    /\ flow.kind = "handleInvoiceModificationsFlow"
    /\ flow.pc = "returned"
    /\ flow.primary.ok
    /\ flow.fallback.ok
    /\ flow.fallback.content.shape = "object"
    /\ flow.fallback.content.message = <<>>
    /\ ~flow.result.value.success

(***************************************************************************)
(* getNextNumber (src/app/actions.ts): document numbers made of the        *)
(* current time.                                                           *)
(***************************************************************************)
\* The clock advances in steps of TickSeconds seconds, MaxTicks times, and
\* getNextNumber is called at most MaxCalls times.
TickSeconds == 30
MaxTicks == 6
MaxCalls == 3

\* new Date() after `ticks` steps of the clock, which starts at
\* 2024-12-31 23:58:00 local time: the values of getFullYear(), getMonth()
\* (0-based), getDate(), getHours(), getMinutes() and getSeconds().
Date(ticks) ==
    LET secs == ticks * TickSeconds
        mins == 58 + secs \div 60
    IN  IF mins < 60
        THEN [year |-> 2024, month |-> 11, date |-> 31, hours |-> 23,
              minutes |-> mins, seconds |-> secs % 60]
        ELSE [year |-> 2025, month |-> 0, date |-> 1,
              hours |-> (mins - 60) \div 60, minutes |-> (mins - 60) % 60,
              seconds |-> secs % 60]

\* n.toString(): the decimal digits of n, as a sequence of characters.
RECURSIVE Digits(_)
Digits(n) ==
    IF n < 10 THEN <<ToString(n)>> ELSE Digits(n \div 10) \o <<ToString(n % 10)>>

\* s.slice(-2)
LastTwo(str) == IF Len(str) <= 2 THEN str ELSE SubSeq(str, Len(str) - 1, Len(str))

\* s.padStart(2, '0')
PadStart2(str) == IF Len(str) < 2 THEN <<"0">> \o str ELSE str

\* parseInt(s) of a string of digits: the number, written here as its
\* decimal numeral without leading zeros (it can exceed 32 bits).
RECURSIVE parseInt(_)
parseInt(str) ==
    IF Len(str) > 1 /\ Head(str) = "0" THEN parseInt(Tail(str)) ELSE str

\* getNextNumber at the time `now`: YYMMDDHHMM.
getNextNumber(now) ==
    LET year == LastTwo(Digits(now.year))
        month == PadStart2(Digits(now.month + 1))
        day == PadStart2(Digits(now.date))
        hours == PadStart2(Digits(now.hours))
        minutes == PadStart2(Digits(now.minutes))
    IN  parseInt(year \o month \o day \o hours \o minutes)

\* getNextNumber of the earlier revision: MMSS.
getNextNumberMMSS(now) ==
    LET minutes == PadStart2(Digits(now.minutes))
        seconds == PadStart2(Digits(now.seconds))
    IN  parseInt(minutes \o seconds)

CounterTypes == {"invoice", "quotation", "receipt"}

InitClock ==
    /\ modelConfigs = <<>>
    /\ pc = "idle"
    /\ idx = 1
    /\ errors = <<>>
    /\ fetches = <<>>
    /\ result = NoResult
    /\ thrown = <<>>
    /\ inv = [p \in Procs |-> LocalIdle]
    /\ behaviour = <<>>
    /\ outcomes = {}
    /\ probe = ProbeIdle
    /\ listed = NotListed
    /\ attempt = AttemptIdle
    /\ flow = FlowIdle
    /\ act = ActIdle
    /\ clock \in { [ClockIdle EXCEPT !.format = f] : f \in {"YYMMDDHHMM", "MMSS"} }
    /\ link = LinkIdle
    /\ hook = HookIdle

\* Time passes.
Tick ==
    /\ clock.ticks < MaxTicks
    /\ clock' = [clock EXCEPT !.ticks = @ + 1]
    /\ UNCHANGED <<fallbackVars, flow, act, link, hook>>

\* An action calls getNextNumber(type); calls that run concurrently are
\* calls between which the clock has not moved.
CallGetNextNumber ==
    /\ Len(clock.issued) < MaxCalls
    /\ \E type \in CounterTypes :
         clock' = [clock EXCEPT
                     !.issued = Append(@,
                        [type |-> type, at |-> clock.ticks,
                         number |-> IF clock.format = "YYMMDDHHMM"
                                    THEN getNextNumber(Date(clock.ticks))
                                    ELSE getNextNumberMMSS(Date(clock.ticks))])]
    /\ UNCHANGED <<fallbackVars, flow, act, link, hook>>

NextClock ==
    \/ Tick
    \/ CallGetNextNumber

SpecClock == InitClock /\ [][NextClock]_allVars

\* C25 as stated: no two calls of getNextNumber for the same document type
\* return the same number.
C25_Original ==
    \A i, j \in 1..Len(clock.issued) :
      (i # j /\ clock.issued[i].type = clock.issued[j].type)
        => clock.issued[i].number # clock.issued[j].number

(***************************************************************************)
(* The server actions (src/app/actions.ts): the API-key check, the flow,   *)
(* hasMeaningfulData, getNextNumber, and the catch block.                  *)
(***************************************************************************)
Whitespace == {" ", "\t", "\n"}

\* String.prototype.trim
RECURSIVE TrimStart(_)
TrimStart(str) ==
    IF str # <<>> /\ Head(str) \in Whitespace THEN TrimStart(Tail(str)) ELSE str
RECURSIVE TrimEnd(_)
TrimEnd(str) ==
    IF str # <<>> /\ str[Len(str)] \in Whitespace
    THEN TrimEnd(SubSeq(str, 1, Len(str) - 1)) ELSE str
Trim(str) == TrimEnd(TrimStart(str))

\* String.prototype.toLowerCase
UpperCase ==
    <<"A", "B", "C", "D", "E", "F", "G", "H", "I", "J", "K", "L", "M",
      "N", "O", "P", "Q", "R", "S", "T", "U", "V", "W", "X", "Y", "Z">>
LowerCase ==
    <<"a", "b", "c", "d", "e", "f", "g", "h", "i", "j", "k", "l", "m",
      "n", "o", "p", "q", "r", "s", "t", "u", "v", "w", "x", "y", "z">>
ToLowerCase(str) ==
    [i \in 1..Len(str) |->
       IF \E k \in 1..26 : UpperCase[k] = str[i]
       THEN LowerCase[CHOOSE k \in 1..26 : UpperCase[k] = str[i]]
       ELSE str[i]]

\* The message, cut where the code searches it (includes('API key')) and
\* without its back quotes.
API_KEY_ERROR_MESSAGE ==
    <<"AI features require a Gemini ", "API key",
      ". Please add GEMINI_API_KEY=your_key to the .env file and restart the server. You can get a key from Google AI Studio.">>

\* isApiKeyMissing of a revision that tests the keys for emptiness without
\* trimming them.
isApiKeyMissingUntrimmed(gemini, google) ==
    /\ ~gemini.set \/ gemini.value = <<>>
    /\ ~google.set \/ google.value = <<>>

\* !geminiKey?.trim() && !googleKey?.trim()
isApiKeyMissing(gemini, google) ==
    /\ ~gemini.set \/ Trim(gemini.value) = <<>>
    /\ ~google.set \/ Trim(google.value) = <<>>

isFiller(val) ==
    \/ val = <<>>
    \/ ToLowerCase(Trim(val)) = <<"n", "/", "a">>
    \/ ToLowerCase(Trim(val))
         = <<"n", "o", "t", " ", "a", "v", "a", "i", "l", "a", "b", "l", "e">>

hasMeaningfulData(parsedData) ==
    \/ ~isFiller(parsedData.customerName)
    \/ ~isFiller(parsedData.vehicleNumber)
    \/ ~isFiller(parsedData.carModel)
    \/ Len(parsedData.items) > 0

ParseActions == {"parseInvoiceAction", "parseQuotationAction", "parseReceiptAction"}
Actions == ParseActions \cup {"modifyInvoiceAction"}

\* The flows an action awaits (modifyInvoiceAction: either revision of
\* handleInvoiceModificationsFlow).
ActionFlows(name) ==
    CASE name = "parseInvoiceAction" -> {"parseServiceDetailsFlow"}
      [] name = "parseQuotationAction" -> {"parseQuotationDetailsFlow"}
      [] name = "parseReceiptAction" -> {"parseReceiptDetailsFlow"}
      [] OTHER -> { "handleInvoiceModificationsFlow",
                    "handleInvoiceModificationsFlow (primary only)" }

\* The type the action passes to getNextNumber and the letter it puts in
\* front of the number.
CounterType(name) ==
    CASE name = "parseQuotationAction" -> "quotation"
      [] name = "parseReceiptAction" -> "receipt"
      [] OTHER -> "invoice"
NumberPrefix(name) ==
    CASE name = "parseQuotationAction" -> <<"Q">>
      [] name = "parseReceiptAction" -> <<"R">>
      [] OTHER -> <<>>

\* The error of a text without details, and the prefix of the error the
\* catch block builds.
NoDetailsError(name) ==
    <<"The provided text doesn't seem to contain any ",
      CounterType(name),
      " details. Please provide more specific information.">>
FailedPrefix(name) ==
    CASE name = "parseInvoiceAction" -> <<"Failed to parse details: ">>
      [] name = "parseQuotationAction" -> <<"Failed to parse quotation: ">>
      [] name = "parseReceiptAction" -> <<"Failed to parse receipt: ">>
      [] OTHER -> <<"Failed to modify invoice: ">>

\* { success: false, data: null, error: text } and, in modifyInvoiceAction,
\* { success: false, data: null, message: text }
Failure(name, text) ==
    IF name \in ParseActions
    THEN ActionResult(FALSE, NullDoc, Text(text), NullText)
    ELSE ActionResult(FALSE, NullDoc, NullText, Text(text))

\* A catch block that handles the API-key errors only and throws every
\* other error again.
CaughtRethrows(name, e) ==
    IF e.isError /\ Contains(e.message, "API key")
    THEN Failure(name, IF name \in ParseActions
                       THEN MessageOr(e, API_KEY_ERROR_MESSAGE)
                       ELSE API_KEY_ERROR_MESSAGE)
    ELSE ActionThrew(e)

\* The catch block, having caught e.
Caught(name, e) ==
    IF e.isError /\ Contains(e.message, "API key")
    THEN Failure(name, IF name \in ParseActions
                       THEN MessageOr(e, API_KEY_ERROR_MESSAGE)
                       ELSE API_KEY_ERROR_MESSAGE)
    ELSE Failure(name, FailedPrefix(name) \o MessageOr(e, <<"Unknown AI error">>))

\* The parse action reaches `await getNextNumber(type)`.
CallsNumber(name, settled) ==
    /\ name \in ParseActions
    /\ settled.ok
    /\ ~settled.value.isNull
    /\ hasMeaningfulData(settled.value.data)

\* The try block of a parse action once the flow has settled; `number` is
\* how getNextNumber ended, if it was called.
ParseSettled(name, settled, number) ==
    IF ~settled.ok THEN Caught(name, settled.thrown)
    ELSE IF settled.value.isNull
    THEN Caught(name, TypeError("null", "customerName"))
    ELSE IF ~hasMeaningfulData(settled.value.data)
    THEN Failure(name, NoDetailsError(name))
    ELSE IF ~number.ok THEN Caught(name, number.thrown)
    ELSE ActionResult(TRUE,
                      ParsedDoc(settled.value.data, NumberPrefix(name) \o number.text),
                      NullText, NullText)

\* The try block of modifyInvoiceAction once the flow has settled.
ModifySettled(name, settled) ==
    IF ~settled.ok THEN Caught(name, settled.thrown)
    ELSE IF settled.value.isNull
    THEN Caught(name, TypeError("null", "success"))
    ELSE IF settled.value.success /\ settled.value.modifiedInvoiceDetails # ""
    THEN (IF JsonParses(settled.value.modifiedInvoiceDetails)
          THEN ActionResult(TRUE, ModifiedDoc(settled.value.modifiedInvoiceDetails),
                            NullText, Text(settled.value.message))
          ELSE Caught(name, ErrorValue(<<"Unexpected end of JSON input">>)))
    ELSE Failure(name, IF settled.value.message # <<>>
                       THEN settled.value.message
                       ELSE <<"Failed to modify invoice.">>)

\* The values of GEMINI_API_KEY and GOOGLE_API_KEY.
EnvValues ==
    { EnvUnset, EnvSet(<<>>), EnvSet(<<" ", "\t">>), EnvSet(<<" ", "k", "1", " ">>) }

\* The fallback list: empty, or with a credential for OpenAI.
InitAction ==
    /\ modelConfigs \in { <<>>, <<ModelConfig("openai", "gpt-4-turbo", "OPENAI_API_KEY")>> }
    /\ pc = "idle"
    /\ idx = 1
    /\ errors = <<>>
    /\ fetches = <<>>
    /\ result = NoResult
    /\ thrown = <<>>
    /\ inv = [p \in Procs |-> LocalIdle]
    /\ behaviour = <<>>
    /\ outcomes = {}
    /\ probe = ProbeIdle
    /\ listed = NotListed
    /\ attempt = AttemptIdle
    /\ flow = FlowIdle
    /\ act \in { [ActIdle EXCEPT !.gemini = g, !.google = k] :
                   g \in EnvValues, k \in EnvValues }
    /\ clock \in { [ClockIdle EXCEPT !.format = f] : f \in {"YYMMDDHHMM", "MMSS"} }
    /\ link = LinkIdle
    /\ hook = HookIdle

\* An action is called: without a key it returns at once, with one it
\* awaits its flow.  parseReceiptAction exists in the revision whose
\* numbers are MMSS.
ActionInvoke ==
    /\ act.pc = "idle"
    /\ \E name \in Actions :
         /\ name = "parseReceiptAction" => clock.format = "MMSS"
         /\ IF isApiKeyMissing(act.gemini, act.google)
            THEN /\ act' = [act EXCEPT !.pc = "done", !.name = name,
                                       !.ret = Failure(name, API_KEY_ERROR_MESSAGE)]
                 /\ flow' = flow
            ELSE /\ act' = [act EXCEPT !.pc = "awaiting", !.name = name]
                 /\ \E kind \in ActionFlows(name) :
                      \E d \in (IF IsModification(kind) THEN DocumentDetails ELSE {""}) :
                        flow' = [FlowIdle EXCEPT !.pc = "primary", !.kind = kind,
                                                 !.documentDetails = d,
                                                 !.primaryCalls = 1]
    /\ UNCHANGED <<fallbackVars, clock, link, hook>>

\* The awaited flow has settled: the rest of the try block, or the catch
\* block.  getNextNumber is awaited inside the try block; it returns the
\* number of the current time, and a generator that rejects is caught like
\* any other error.
ActionSettles ==
    /\ act.pc = "awaiting"
    /\ flow.pc \in {"returned", "threw"}
    /\ IF CallsNumber(act.name, flow.result)
       THEN LET n == IF clock.format = "YYMMDDHHMM"
                     THEN getNextNumber(Date(clock.ticks))
                     ELSE getNextNumberMMSS(Date(clock.ticks))
            IN  \/ /\ clock' = [clock EXCEPT
                                  !.issued = Append(@, [type |-> CounterType(act.name),
                                                        at |-> clock.ticks,
                                                        number |-> n])]
                   /\ act' = [act EXCEPT
                                !.pc = "done",
                                !.ret = ParseSettled(act.name, flow.result, Returns(n))]
                \/ /\ clock' = clock
                   /\ act' = [act EXCEPT
                                !.pc = "done",
                                !.ret = ParseSettled(act.name, flow.result,
                                           Throws(ErrorValue(<<"counter unavailable">>)))]
       ELSE /\ clock' = clock
            /\ act' = [act EXCEPT
                         !.pc = "done",
                         !.ret = IF act.name \in ParseActions
                                 THEN ParseSettled(act.name, flow.result,
                                                   Throws(NoThrown))
                                 ELSE ModifySettled(act.name, flow.result)]
    /\ UNCHANGED <<fallbackVars, flow, link, hook>>

NextAction ==
    \/ ActionInvoke
    \/ PrimarySucceeds
    \/ PrimaryFails
    \/ PrimaryFailsFinal
    \/ FallbackAccepted
    \/ FallbackRejected
    \/ ActionSettles
    \/ Tick

SpecAction == InitAction /\ [][NextAction]_allVars

\* The variable holds a value that is not blank: it is set and some
\* character of it is not whitespace.
NonBlank(v) == v.set /\ \E i \in 1..Len(v.value) : v.value[i] \notin Whitespace

\* C27: when neither GEMINI_API_KEY nor GOOGLE_API_KEY holds a non-blank
\* value, an action that has been called has returned success = false and
\* data = null with the API-key message, and neither the primary prompt nor
\* callModelWithFallback has been called, whether or not the fallback list
\* holds a credential.
C27_NoKeyNoCall ==
    (act.pc # "idle" /\ ~NonBlank(act.gemini) /\ ~NonBlank(act.google)) =>
      /\ act.pc = "done"
      /\ ~act.ret.threw
      /\ ~act.ret.success
      /\ act.ret.data.isNull
      /\ IF act.name \in ParseActions
         THEN act.ret.error = Text(API_KEY_ERROR_MESSAGE)
         ELSE act.ret.message = Text(API_KEY_ERROR_MESSAGE)
      /\ flow.primaryCalls = 0
      /\ flow.fallbackCalls = 0
      /\ flow.pc = "idle"
      /\ pc = "idle"
      /\ fetches = <<>>

\* C27 witness: modifyInvoiceAction has returned while GEMINI_API_KEY is
\* blanks, GOOGLE_API_KEY is unset and the fallback list holds an OpenAI
\* credential.
C27_Witness ==
    /\ act.pc = "done"
    /\ act.name = "modifyInvoiceAction"
    /\ act.gemini.set
    /\ act.gemini.value # <<>>
    /\ ~NonBlank(act.gemini)
    /\ ~act.google.set
    /\ modelConfigs # <<>>
    /\ modelConfigs[1].apiKey # ""
    /\ act.ret.message = Text(API_KEY_ERROR_MESSAGE)

\* C28: a parse action that has ended has returned, not thrown, and in
\* what it returned success is true exactly when data is not null and
\* exactly when error is null.
C28_ResultShape ==
    (act.pc = "done" /\ act.name \in ParseActions) =>
      /\ ~act.ret.threw
      /\ act.ret.success <=> ~act.ret.data.isNull
      /\ act.ret.success <=> act.ret.error.isNull

\* C28 witness: parseQuotationAction has returned a failure after its flow
\* threw because the primary prompt and the fallback chain both failed.
C28_Witness ==
    /\ act.pc = "done"
    /\ act.name = "parseQuotationAction"
    /\ flow.pc = "threw"
    /\ flow.fallbackCalls = 1
    /\ ~act.ret.success
    /\ act.ret.data.isNull
    /\ ~act.ret.error.isNull

(***************************************************************************)
(* The document carried in the button URL (webhook/route.ts): the reply    *)
(* generators pack it, handleModificationRequest unpacks it.               *)
(***************************************************************************)
\* JSON.stringify(d) is at most MaxText bytes long, drawn from JsonBytes:
\* '{', '>', '?', '~' and the lead bytes of Telugu letters in UTF-8.
MaxText == 2
JsonBytes == {123, 62, 63, 126, 224, 176}

RECURSIVE Sum(_)
Sum(bytes) == IF bytes = <<>> THEN 0 ELSE Head(bytes) + Sum(Tail(bytes))

\* pako.deflate, as far as the framing of a zlib stream goes: the header
\* bytes 0x78 0x9C, the payload, a check value of the payload.  The payload
\* is kept as it is (a stored block).
Deflate(bytes) == <<120, 156>> \o bytes \o <<Sum(bytes) % 256>>

\* pako.inflate(data, { to: 'string' }): the payload, or the error of a
\* stream with a bad header or a bad check value.
Inflate(data) ==
    IF Len(data) < 3 \/ data[1] # 120 \/ data[2] # 156
    THEN Throws(ErrorValue(<<"incorrect header check">>))
    ELSE IF Sum(SubSeq(data, 3, Len(data) - 1)) % 256 # data[Len(data)]
    THEN Throws(ErrorValue(<<"incorrect data check">>))
    ELSE Returns(SubSeq(data, 3, Len(data) - 1))

\* The base64 and base64url alphabets.
Base64Alphabet ==
    UpperCase \o LowerCase
      \o <<"0", "1", "2", "3", "4", "5", "6", "7", "8", "9", "+", "/">>
Base64UrlAlphabet ==
    UpperCase \o LowerCase
      \o <<"0", "1", "2", "3", "4", "5", "6", "7", "8", "9", "-", "_">>

\* Buffer.toString('base64') pads with '=', toString('base64url') does not.
RECURSIVE ToBase64(_, _)
ToBase64(bytes, encoding) ==
    LET abc == IF encoding = "base64" THEN Base64Alphabet ELSE Base64UrlAlphabet
        pad == IF encoding = "base64" THEN <<"=">> ELSE <<>>
    IN  IF bytes = <<>> THEN <<>>
        ELSE IF Len(bytes) = 1
        THEN <<abc[bytes[1] \div 4 + 1], abc[(bytes[1] % 4) * 16 + 1]>> \o pad \o pad
        ELSE IF Len(bytes) = 2
        THEN <<abc[bytes[1] \div 4 + 1],
               abc[(bytes[1] % 4) * 16 + bytes[2] \div 16 + 1],
               abc[(bytes[2] % 16) * 4 + 1]>> \o pad
        ELSE <<abc[bytes[1] \div 4 + 1],
               abc[(bytes[1] % 4) * 16 + bytes[2] \div 16 + 1],
               abc[(bytes[2] % 16) * 4 + bytes[3] \div 64 + 1],
               abc[(bytes[3] % 64) + 1]>>
               \o ToBase64(SubSeq(bytes, 4, Len(bytes)), encoding)

\* `?data=${base64Data}`: the query of the button's URL, without the '?'.
Search(base64Data) == <<"d", "a", "t", "a", "=">> \o base64Data

\* URLSearchParams.get(name) on a query with one pair: the text after the
\* first '=' when the text before it is the name, with each '+' read as a
\* space (application/x-www-form-urlencoded); null otherwise.
RECURSIVE PlusToSpace(_)
PlusToSpace(str) ==
    IF str = <<>> THEN <<>>
    ELSE <<IF Head(str) = "+" THEN " " ELSE Head(str)>> \o PlusToSpace(Tail(str))
SearchParamsGet(search, name) ==
    IF \E i \in 1..Len(search) : search[i] = "=" /\ SubSeq(search, 1, i - 1) = name
    THEN Text(PlusToSpace(SubSeq(search, Len(name) + 2, Len(search))))
    ELSE NullText

\* base64Data.replace(/-/g, '+').replace(/_/g, '/')
RECURSIVE ToStandardAlphabet(_)
ToStandardAlphabet(str) ==
    IF str = <<>> THEN <<>>
    ELSE <<CASE Head(str) = "-" -> "+"
             [] Head(str) = "_" -> "/"
             [] OTHER -> Head(str)>> \o ToStandardAlphabet(Tail(str))

\* Buffer.from(str, 'base64'): the sextets of the characters of either
\* alphabet up to the first '='; every other character is skipped.
RECURSIVE Sextets(_)
Sextets(str) ==
    IF str = <<>> \/ Head(str) = "=" THEN <<>>
    ELSE IF \E k \in 1..64 : Base64Alphabet[k] = Head(str)
    THEN <<(CHOOSE k \in 1..64 : Base64Alphabet[k] = Head(str)) - 1>>
           \o Sextets(Tail(str))
    ELSE IF \E k \in 1..64 : Base64UrlAlphabet[k] = Head(str)
    THEN <<(CHOOSE k \in 1..64 : Base64UrlAlphabet[k] = Head(str)) - 1>>
           \o Sextets(Tail(str))
    ELSE Sextets(Tail(str))
RECURSIVE FromSextets(_)
FromSextets(six) ==
    IF Len(six) < 2 THEN <<>>
    ELSE IF Len(six) = 2
    THEN <<six[1] * 4 + six[2] \div 16>>
    ELSE IF Len(six) = 3
    THEN <<six[1] * 4 + six[2] \div 16, (six[2] % 16) * 16 + six[3] \div 4>>
    ELSE <<six[1] * 4 + six[2] \div 16, (six[2] % 16) * 16 + six[3] \div 4,
           (six[3] % 4) * 64 + six[4]>>
           \o FromSextets(SubSeq(six, 5, Len(six)))
FromBase64(str) == FromSextets(Sextets(str))

\* JSON.stringify(d) for the documents d.
RECURSIVE TextsUpTo(_)
TextsUpTo(n) ==
    IF n = 0 THEN {<<>>}
    ELSE TextsUpTo(n - 1)
           \cup { Append(t, b) : t \in { u \in TextsUpTo(n - 1) : Len(u) = n - 1 },
                                 b \in JsonBytes }

InitLink ==
    /\ modelConfigs = <<>>
    /\ pc = "idle"
    /\ idx = 1
    /\ errors = <<>>
    /\ fetches = <<>>
    /\ result = NoResult
    /\ thrown = <<>>
    /\ inv = [p \in Procs |-> LocalIdle]
    /\ behaviour = <<>>
    /\ outcomes = {}
    /\ probe = ProbeIdle
    /\ listed = NotListed
    /\ attempt = AttemptIdle
    /\ flow = FlowIdle
    /\ act = ActIdle
    /\ clock = ClockIdle
    /\ link \in { [LinkIdle EXCEPT !.encoding = enc] : enc \in {"base64", "base64url"} }
    /\ hook = HookIdle

\* generateInvoiceReply / generateQuotationReply build the button's URL.
GenerateReply ==
    /\ link.pc = "idle"
    /\ \E jsonData \in TextsUpTo(MaxText) :
         link' = [link EXCEPT
                    !.pc = "sent", !.jsonData = jsonData,
                    !.search = Search(ToBase64(Deflate(jsonData), link.encoding))]
    /\ UNCHANGED <<fallbackVars, flow, act, clock, hook>>

\* handleModificationRequest takes the document out of the URL of the
\* button of the message replied to.  The revision that writes base64url
\* maps the characters back before decoding.
RecoverDocument ==
    /\ link.pc = "sent"
    /\ LET base64Data == SearchParamsGet(link.search, <<"d", "a", "t", "a">>)
       IN  link' = [link EXCEPT
                      !.pc = "recovered",
                      !.recovered =
                         IF base64Data.isNull \/ base64Data.text = <<>>
                         THEN Throws(NoThrown)
                         ELSE IF link.encoding = "base64"
                         THEN Inflate(FromBase64(base64Data.text))
                         ELSE Inflate(FromBase64(ToStandardAlphabet(base64Data.text)))]
    /\ UNCHANGED <<fallbackVars, flow, act, clock, hook>>

NextLink ==
    \/ GenerateReply
    \/ RecoverDocument

SpecLink == InitLink /\ [][NextLink]_allVars

\* C29 as stated: the string handleModificationRequest recovers from the
\* button URL is JSON.stringify(d), whichever encoding wrote the URL.
C29_Original ==
    link.pc = "recovered" => link.recovered = Returns(link.jsonData)

(***************************************************************************)
(* handleNewDocumentRequest (webhook/route.ts): the placeholder message     *)
(* and its final text.  The parse action is taken by its outcome.          *)
(***************************************************************************)
\* The two revisions of the handler: the current one looks for 'quote'
\* anywhere in the text, the earlier one wants a keyword in front.
Revisions == {"keyword anywhere", "keyword first"}

\* The incoming text, as far as the handler looks into it: the keyword it
\* starts with, whether 'quote' occurs later in it, and whether anything
\* but whitespace follows the keyword.  POST passes on non-empty texts only.
IncomingTexts ==
    { [keyword |-> k, mentionsQuote |-> q, notes |-> n] :
        k \in {"", "quote", "invoice", "receipt"}, q \in BOOLEAN, n \in BOOLEAN }
      \ { t \in [keyword : {"", "quote", "invoice", "receipt"},
                 mentionsQuote : BOOLEAN, notes : BOOLEAN] :
            \/ t.keyword = "" /\ ~t.notes
            \/ t.mentionsQuote /\ ~t.notes }

\* docType, or "" when the earlier revision finds no keyword.
DocType(revision, text) ==
    IF revision = "keyword anywhere"
    THEN (IF text.keyword = "quote" \/ text.mentionsQuote THEN "Quotation" ELSE "Invoice")
    ELSE CASE text.keyword = "quote" -> "Quotation"
           [] text.keyword = "invoice" -> "Invoice"
           [] text.keyword = "receipt" -> "Receipt"
           [] OTHER -> ""

\* The action the handler calls.
HookAction(docType) ==
    CASE docType = "Quotation" -> "parseQuotationAction"
      [] docType = "Receipt" -> "parseReceiptAction"
      [] OTHER -> "parseInvoiceAction"

\* One call of editMessageText on the placeholder: the kind of text, whether
\* a button comes with it, and whether Telegram accepted it.
Edit(text, button, ok) == [text |-> text, button |-> button, ok |-> ok]

\* What the parsed data of a successful action can be: at least one field or
\* item is there (hasMeaningfulData).
HookData ==
    { d \in DataShapes : hasMeaningfulData(d) }
      \cup { Data(<<"R", "a", "v", "i">>, <<>>, <<" ">>, <<>>) }

\* How the awaited action can end.
ActionOutcomes(name) ==
    { Failure(name, API_KEY_ERROR_MESSAGE),
      Failure(name, NoDetailsError(name)),
      ActionThrew(ErrorValue(<<"fetch failed">>)) }
      \cup { ActionResult(TRUE, ParsedDoc(d, NumberPrefix(name) \o <<"2412312358">>),
                          NullText, NullText) : d \in HookData }

\* missingFields.length > 0 && hasItems
IsPartial(data) ==
    /\ \/ Trim(data.customerName) = <<>>
       \/ Trim(data.vehicleNumber) = <<>>
       \/ Trim(data.carModel) = <<>>
    /\ Len(data.items) > 0

\* What a reply generator returns: the text with the button, or, when the
\* public URL is missing or building the link threw, a text and no
\* replyOptions.
Generated == {"link", "configuration error", "internal error"}

\* TryEdits of a handler whose safety check lacks its `return` and goes on
\* to the edit below it.
TryEditsNoReturn(ret, generated) ==
    IF ~ret.success \/ ret.data.isNull
    THEN <<Edit("could not parse", FALSE, TRUE)>>
    ELSE IF IsPartial(ret.data.fields)
    THEN <<Edit("missing details", TRUE, TRUE)>>
    ELSE IF generated # "link"
    THEN <<Edit(generated, FALSE, TRUE), Edit(generated, FALSE, TRUE)>>
    ELSE <<Edit("created", TRUE, TRUE)>>

\* The calls of editMessageText the try block makes, in order, when each of
\* them succeeds and the action has returned `ret`.
TryEdits(ret, generated) ==
    IF ~ret.success \/ ret.data.isNull
    THEN <<Edit("could not parse", FALSE, TRUE)>>
    ELSE IF IsPartial(ret.data.fields)
    THEN <<Edit("missing details", TRUE, TRUE)>>
    ELSE IF generated # "link"
    THEN <<Edit(generated, FALSE, TRUE)>>
    ELSE <<Edit("created", TRUE, TRUE)>>

\* The calls made when call number `rejectAt` of the try block is rejected
\* by Telegram (0: none is): the calls up to it, then the one of the catch
\* block.
EditsMade(tryEdits, rejectAt, catchOk) ==
    IF rejectAt = 0 THEN tryEdits
    ELSE SubSeq(tryEdits, 1, rejectAt - 1)
           \o <<[tryEdits[rejectAt] EXCEPT !.ok = FALSE],
                Edit("critical error", FALSE, catchOk)>>

InitHook ==
    /\ modelConfigs = <<>>
    /\ pc = "idle"
    /\ idx = 1
    /\ errors = <<>>
    /\ fetches = <<>>
    /\ result = NoResult
    /\ thrown = <<>>
    /\ inv = [p \in Procs |-> LocalIdle]
    /\ behaviour = <<>>
    /\ outcomes = {}
    /\ probe = ProbeIdle
    /\ listed = NotListed
    /\ attempt = AttemptIdle
    /\ flow = FlowIdle
    /\ act = ActIdle
    /\ clock = ClockIdle
    /\ link = LinkIdle
    /\ hook \in { [HookIdle EXCEPT !.revision = r] : r \in Revisions }

\* The handler is called and there is no bot: it returns.
HookNoBot ==
    /\ hook.pc = "idle"
    /\ hook' = [hook EXCEPT !.pc = "done"]
    /\ UNCHANGED <<fallbackVars, flow, act, clock, link>>

\* The handler is called with a text the earlier revision finds no keyword
\* in: it sends the hint and returns.
HookNoKeyword ==
    /\ hook.pc = "idle"
    /\ \E text \in IncomingTexts :
         /\ DocType(hook.revision, text) = ""
         /\ \E sendOk \in BOOLEAN :
              hook' = [hook EXCEPT !.pc = "done", !.threw = ~sendOk,
                                   !.messages = IF sendOk THEN 1 ELSE 0]
    /\ UNCHANGED <<fallbackVars, flow, act, clock, link>>

\* The handler sends the placeholder; if Telegram rejects it the handler
\* throws.  The earlier revision then asks for notes when only the keyword
\* was sent; otherwise the action is awaited.
HookPlaceholder ==
    /\ hook.pc = "idle"
    /\ \E text \in IncomingTexts :
         /\ DocType(hook.revision, text) # ""
         /\ \/ hook' = [hook EXCEPT !.pc = "done", !.threw = TRUE,
                                    !.docType = DocType(hook.revision, text)]
            \/ /\ hook.revision = "keyword first"
               /\ ~text.notes
               /\ \E ok \in BOOLEAN :
                    hook' = [hook EXCEPT
                               !.pc = "done", !.placeholder = TRUE,
                               !.docType = DocType(hook.revision, text),
                               !.edits = <<Edit("no notes", FALSE, ok)>>,
                               !.threw = ~ok]
            \/ /\ hook.revision = "keyword first" => text.notes
               /\ hook' = [hook EXCEPT !.pc = "action", !.placeholder = TRUE,
                                       !.docType = DocType(hook.revision, text)]
    /\ UNCHANGED <<fallbackVars, flow, act, clock, link>>

\* The action has settled: the rest of the try block, and the catch block
\* if the action or an edit threw.  An edit that Telegram rejects in the
\* catch block makes the handler throw.
HookActionSettles ==
    /\ hook.pc = "action"
    /\ \E r \in ActionOutcomes(HookAction(hook.docType)), generated \in Generated,
          catchOk \in BOOLEAN :
         IF r.threw
         THEN hook' = [hook EXCEPT !.pc = "done", !.result = r,
                                   !.edits = <<Edit("critical error", FALSE, catchOk)>>,
                                   !.threw = ~catchOk]
         ELSE \E rejectAt \in 0..Len(TryEdits(r, generated)) :
                hook' = [hook EXCEPT
                           !.pc = "done", !.result = r,
                           !.edits = EditsMade(TryEdits(r, generated), rejectAt, catchOk),
                           !.threw = (rejectAt # 0 /\ ~catchOk)]
    /\ UNCHANGED <<fallbackVars, flow, act, clock, link>>

NextHook ==
    \/ HookNoBot
    \/ HookNoKeyword
    \/ HookPlaceholder
    \/ HookActionSettles

SpecHook == InitHook /\ [][NextHook]_allVars

\* Every call the handler made to Telegram succeeded.
TelegramSucceeded == ~hook.threw /\ \A i \in 1..Len(hook.edits) : hook.edits[i].ok

\* C30: when the handler has returned after sending the placeholder and
\* every Telegram call succeeded, the placeholder has been edited exactly
\* once; and while the handler runs it is never edited a second time unless
\* Telegram rejected an edit.
C30_EditedOnce ==
    /\ (hook.pc = "done" /\ hook.placeholder /\ TelegramSucceeded)
         => Len(hook.edits) = 1
    /\ (hook.placeholder /\ TelegramSucceeded) => Len(hook.edits) <= 1
    /\ ~hook.placeholder => hook.edits = <<>>

\* C30 witness: the action returned a complete document, the reply
\* generator failed to build the link, and the placeholder was edited once,
\* without a button.
C30_Witness ==
    /\ hook.pc = "done"
    /\ hook.placeholder
    /\ TelegramSucceeded
    /\ hook.result.success
    /\ ~IsPartial(hook.result.data.fields)
    /\ Len(hook.edits) = 1
    /\ hook.edits[1].text = "internal error"
    /\ ~hook.edits[1].button

====
